---- MODULE Spec2Model ----
(***************************************************************************)
(* Message routing backend of the logistics chat assistant: the intent     *)
(* router (agent_router.py) and the stage pipelines it fronts              *)
(* (availability_agent.py, load_finder_agent.py, expense_tracker_agent.py).*)
(*                                                                         *)
(* Text is modelled as TLA+ strings over ASCII.  Python's str operations   *)
(* (in, lower, strip, title, replace, split, re.search) are operators      *)
(* computed character by character with Len, SubSeq and \o.  A character   *)
(* outside ASCII is written with a stand-in: "$" is the rupee sign U+20B9, *)
(* and "~^|" are the three characters U+00E2 U+201A U+00B9 that stand in   *)
(* the first amount pattern of expense_tracker_agent.py.                   *)
(* Money is held in hundredths of a rupee (the amount patterns admit two   *)
(* decimals), so the float 2500.0 is the integer 250000.                   *)
(***************************************************************************)
EXTENDS Integers, Sequences, FiniteSets, TLC

VARIABLES
    r_pc,        \* router: "called" before route_message_to_agent runs, "returned" after
    r_message,   \* router: the message argument
    r_driver,    \* router: the driver_id argument
    r_intent,    \* router: the local variable intent
    r_raised,    \* router: TRUE when the call left by an exception
    r_fault,     \* router: what was raised inside the try, [import |-> "ok"] when nothing
    r_envelope,  \* router: the dict returned
    e_pc,        \* expense pipeline: the node LangGraph runs next
    e_state,     \* expense pipeline: the ExpenseState threaded through the nodes
    e_records,   \* expense pipeline: the expense_record dicts built and logged as saved
    e_trace,     \* expense pipeline: the nodes that have run, in the order they ran
    e_result,    \* expense pipeline: the dict process_expense_message returns
    v_state,     \* validation harness: an ExpenseState whose fields are drawn freely
    v_done,      \* validation harness: TRUE once validate_expense_data has run
    a_pc,        \* availability pipeline: the node LangGraph runs next
    a_db,        \* availability pipeline: DATABASE_ENABLED
    a_state,     \* availability pipeline: the AvailabilityState threaded through the nodes
    a_trace,     \* availability pipeline: the nodes that have run, in the order they ran
    a_calls,     \* availability pipeline: the calls made to Supabase and Gemini, with
                 \* the node that made each and whether it came back without raising
    a_result,    \* availability pipeline: the dict process_driver_message returns
    l_pc,        \* load pipeline: the node LangGraph runs next
    l_state,     \* load pipeline: the LoadFinderState threaded through the nodes
    l_trace,     \* load pipeline: the nodes that have run, in the order they ran
    s_loads,     \* concurrent load searches: the module's list MOCK_LOADS as the runs find it
    s_pc,        \* concurrent load searches: for each run the node LangGraph runs next
    s_state,     \* concurrent load searches: for each run its LoadFinderState
    s_draw,      \* concurrent load searches: for each run the random draws of its
                 \* search_loads, None before
    d_table,     \* concurrent ensure_driver_exists: the driver_id of each row of the
                 \* table drivers
    d_pc,        \* concurrent ensure_driver_exists: for each run the node that calls and
                 \* the store call that comes next
    d_driver,    \* concurrent ensure_driver_exists: for each run its driver_id
    d_issued     \* concurrent ensure_driver_exists: the inserts sent to the store, each
                 \* with whether a row of its driver_id was there and whether it went in

r_vars == <<r_pc, r_message, r_driver, r_intent, r_raised, r_fault, r_envelope>>
e_vars == <<e_pc, e_state, e_records, e_trace, e_result>>
v_vars == <<v_state, v_done>>
a_vars == <<a_pc, a_db, a_state, a_trace, a_calls, a_result>>
l_vars == <<l_pc, l_state, l_trace>>
c_vars == <<s_loads, s_pc, s_state, s_draw, d_table, d_pc, d_driver, d_issued>>

vars == <<r_vars, e_vars, v_vars, a_vars, l_vars, c_vars>>

(***************************************************************************)
(* Bounds.                                                                 *)
(***************************************************************************)
\* A message is at most MaxParts phrases joined by single spaces.
MaxParts == 2

\* A list of candidate loads handed to the ranking has at most MaxLoads loads.
MaxLoads == 2

\* At most MaxRuns runs of a pipeline are under way at the same time.
MaxRuns == 2

\* Python's None.  A string, so that it compares with the str values a field holds.
None == "<None>"

(***************************************************************************)
(* str operations.                                                         *)
(***************************************************************************)
\* The characters of s at the positions i..j that s has (the slice s[i-1:j]).
Sub(s, i, j) ==
    LET lo == IF i < 1 THEN 1 ELSE i
        hi == IF j > Len(s) THEN Len(s) ELSE j
    IN IF lo > hi THEN "" ELSE SubSeq(s, lo, hi)

\* The character of s at position i, "" when s has none there.
Ch(s, i) == Sub(s, i, i)

\* sub in s
Contains(s, sub) ==
    \E i \in 1..(Len(s) - Len(sub) + 1) : Sub(s, i, i + Len(sub) - 1) = sub

UpperLetters == "ABCDEFGHIJKLMNOPQRSTUVWXYZ"
LowerLetters == "abcdefghijklmnopqrstuvwxyz"
Digits == "0123456789"

UpperSet == {Ch(UpperLetters, i) : i \in 1..Len(UpperLetters)}
LowerSet == {Ch(LowerLetters, i) : i \in 1..Len(LowerLetters)}

IsLetter(c) == c \in UpperSet \/ c \in LowerSet
IsDigit(c) == c \in {"0", "1", "2", "3", "4", "5", "6", "7", "8", "9"}
IsSpace(c) == c \in {" ", "\t", "\n", "\r"}

IndexIn(alphabet, c) == CHOOSE i \in 1..Len(alphabet) : Ch(alphabet, i) = c

LowerChar(c) == IF c \in UpperSet THEN Ch(LowerLetters, IndexIn(UpperLetters, c)) ELSE c
UpperChar(c) == IF c \in LowerSet THEN Ch(UpperLetters, IndexIn(LowerLetters, c)) ELSE c

\* str.lower(), character by character (the string is halved to keep the
\* recursion shallow).
RECURSIVE lower(_)
lower(s) ==
    IF Len(s) <= 1 THEN LowerChar(s)
    ELSE lower(Sub(s, 1, Len(s) \div 2)) \o lower(Sub(s, Len(s) \div 2 + 1, Len(s)))

\* sum(1 for word in keywords if word in text)
KeywordScore(keywords, text) == Cardinality({k \in DOMAIN keywords : Contains(text, keywords[k])})

(***************************************************************************)
(* agent_router.py: classify_message_intent.                               *)
(***************************************************************************)
availability_keywords ==
    <<"free", "available", "ready", "busy", "occupied", "offline", "rest", "break",
      "status", "working", "trip", "driving">>

load_keywords ==
    <<"load", "loads", "shipment", "cargo", "delivery", "transport", "from", "to",
      "route", "destination", "pickup", "booking">>

expense_keywords ==
    <<"expense", "cost", "fuel", "diesel", "toll", "parking", "maintenance", "repair",
      "bill", "receipt", "paid">>

context_keywords == <<"find", "search", "looking", "need">>

availability_score(message_lower) == KeywordScore(availability_keywords, message_lower)
load_score(message_lower) == KeywordScore(load_keywords, message_lower)
expense_score(message_lower) == KeywordScore(expense_keywords, message_lower)

\* The if/elif chain of lines 24-35 on the three counts.
\* Variants of the if/elif chain of lines 24-35, none of them the program:
\* the load branch forgetting to compare with the expense score,
IntentOfScores_LoadBeatsOnlyAvailability(a, l, e, context) ==
    IF l > a THEN "load_search"
    ELSE IF e > a /\ e > l THEN "expense_tracking"
    ELSE IF a > 0 THEN "availability"
    ELSE IF context THEN "load_search"
    ELSE "general"

\* and the chain with every tie handed to the context heuristic.
IntentOfScores_TiesToContext(a, l, e, context) ==
    IF l > a /\ l > e THEN "load_search"
    ELSE IF e > a /\ e > l THEN "expense_tracking"
    ELSE IF a > l /\ a > e THEN "availability"
    ELSE IF context THEN "load_search"
    ELSE "general"

IntentOfScores(a, l, e, context) ==
    IF l > a /\ l > e THEN "load_search"
    ELSE IF e > a /\ e > l THEN "expense_tracking"
    ELSE IF a > 0 THEN "availability"
    ELSE IF context THEN "load_search"
    ELSE "general"

\* any(word in message_lower for word in ["find", "search", "looking", "need"])
\* A variant of line 32 that looks for no context word at all.
ContextHit_Never(message_lower) == FALSE

ContextHit(message_lower) == \E k \in DOMAIN context_keywords : Contains(message_lower, context_keywords[k])

classify_message_intent(message) ==
    LET message_lower == lower(message)
    IN IntentOfScores(availability_score(message_lower), load_score(message_lower),
                      expense_score(message_lower), ContextHit(message_lower))

(***************************************************************************)
(* More str operations.                                                    *)
(***************************************************************************)
RECURSIVE lstrip(_)
lstrip(s) == IF s # "" /\ IsSpace(Ch(s, 1)) THEN lstrip(Sub(s, 2, Len(s))) ELSE s

RECURSIVE rstrip(_)
rstrip(s) == IF s # "" /\ IsSpace(Ch(s, Len(s))) THEN rstrip(Sub(s, 1, Len(s) - 1)) ELSE s

strip(s) == rstrip(lstrip(s))

\* s.replace(c, "") for a single character c
RECURSIVE remove(_, _)
remove(s, c) ==
    IF Len(s) <= 1 THEN (IF s = c THEN "" ELSE s)
    ELSE remove(Sub(s, 1, Len(s) \div 2), c) \o remove(Sub(s, Len(s) \div 2 + 1, Len(s)), c)

\* s.title() on the positions i..j of s: a letter is upper-cased when the character
\* before it is not a letter (or there is none) and lower-cased otherwise.
RECURSIVE TitleRange(_, _, _)
TitleRange(s, i, j) ==
    IF i > j THEN ""
    ELSE IF i = j THEN (IF IsLetter(Ch(s, i - 1)) THEN LowerChar(Ch(s, i)) ELSE UpperChar(Ch(s, i)))
    ELSE TitleRange(s, i, (i + j) \div 2) \o TitleRange(s, (i + j) \div 2 + 1, j)

title(s) == TitleRange(s, 1, Len(s))

\* Python truthiness of a str | None value
Truthy(v) == v # None /\ v # ""

\* any(word in text for word in words)
AnyIn(words, text) == \E k \in DOMAIN words : Contains(text, words[k])

\* next((w for w in words if key(w) in text), ""), key being lower or the identity
FirstIn(words, text, lowered) ==
    LET hit(k) == Contains(text, IF lowered THEN lower(words[k]) ELSE words[k])
    IN IF \E k \in DOMAIN words : hit(k)
       THEN words[CHOOSE k \in DOMAIN words : hit(k) /\ \A j \in 1..(k - 1) : ~hit(j)]
       ELSE ""

(***************************************************************************)
(* availability_agent.py.  The calls that leave the process (the Supabase  *)
(* client, the Gemini model) are outcomes x drawn by the caller:           *)
(*   x.database_enabled  DATABASE_ENABLED                                  *)
(*   x.ensure            the select/insert of ensure_driver_exists went    *)
(*                       through (no exception)                            *)
(*   x.analysis          [ok |-> FALSE] when MODEL.generate_content, the   *)
(*                       JSON parse or the schema raised, else the parsed  *)
(*                       DriverStatusAnalysis with ok |-> TRUE             *)
(*   x.update            the update of save_driver_status went through     *)
(*   x.reply             [ok |-> FALSE] or [ok |-> TRUE, text |-> ...]     *)
(*   x.now               datetime.now().isoformat()                        *)
(* confidence is held in hundredths: 0.8 is 80.                            *)
(***************************************************************************)
SUPPORTED_CITIES ==
    <<"Delhi", "Mumbai", "Bangalore", "Chennai", "Kolkata", "Pune", "Hyderabad",
      "Ahmedabad", "Surat", "Jaipur", "Lucknow", "Kanpur", "Nagpur", "Indore">>

SUPPORTED_VEHICLES == <<"truck", "trailer", "tempo", "container", "tanker">>

ensure_driver_exists(x) == IF ~x.database_enabled THEN TRUE ELSE x.ensure

save_driver_status(x) == IF ~x.database_enabled THEN TRUE ELSE x.update

\* The fallback without the else of line 155: the status stays as line 147
\* set it.
FallbackStatus_NoDefault(message_lower) ==
    IF AnyIn(<<"busy", "trip pe", "load leke", "ja raha">>, message_lower) THEN "busy"
    ELSE IF AnyIn(<<"rest", "break", "offline", "kal subah">>, message_lower) THEN "offline"
    ELSE IF AnyIn(<<"free", "available", "khali", "complete">>, message_lower) THEN "available"
    ELSE "unknown"

\* The fallback with the test of line 152 ahead of those of lines 148 and 150.
FallbackStatus_AvailableFirst(message_lower) ==
    IF AnyIn(<<"free", "available", "khali", "complete">>, message_lower) THEN "available"
    ELSE IF AnyIn(<<"busy", "trip pe", "load leke", "ja raha">>, message_lower) THEN "busy"
    ELSE IF AnyIn(<<"rest", "break", "offline", "kal subah">>, message_lower) THEN "offline"
    ELSE IF AnyIn(<<"load", "trip", "delivery">>, message_lower) THEN "busy"
    ELSE "available"

\* The except branch of analyze_availability, lines 146-155.
FallbackStatus(message_lower) ==
    IF AnyIn(<<"busy", "trip pe", "load leke", "ja raha">>, message_lower) THEN "busy"
    ELSE IF AnyIn(<<"rest", "break", "offline", "kal subah">>, message_lower) THEN "offline"
    ELSE IF AnyIn(<<"free", "available", "khali", "complete">>, message_lower) THEN "available"
    ELSE IF AnyIn(<<"load", "trip", "delivery">>, message_lower) THEN "busy"
    ELSE "available"

analyze_availability(state, x) ==
    IF ~ensure_driver_exists(x)
    THEN [state EXCEPT !.status = "error",
                       !.reasoning = "Driver creation failed",
                       !.error = "Failed to create record for " \o state.driver_id]
    ELSE IF x.analysis.ok
    THEN [state EXCEPT !.status = x.analysis.status,
                       !.location = x.analysis.location,
                       !.vehicle_type = x.analysis.vehicle_type,
                       !.confidence = x.analysis.confidence,
                       !.reasoning = x.analysis.reasoning,
                       !.error = None]
    ELSE LET message_lower == lower(state.original_message)
             status == FallbackStatus(message_lower)
         IN [state EXCEPT !.status = status,
                          !.location = FirstIn(SUPPORTED_CITIES, message_lower, TRUE),
                          !.vehicle_type = FirstIn(SUPPORTED_VEHICLES, message_lower, FALSE),
                          !.confidence = 80,
                          !.reasoning = "Fallback logic detected '" \o status \o "'",
                          !.error = None]

\* update_driver_database without the else of line 169.
update_driver_database_FailureUnmarked(state, x) ==
    IF Truthy(state.error) THEN state
    ELSE IF save_driver_status(x) THEN [state EXCEPT !.last_updated = x.now]
    ELSE state

\* update_driver_database with line 168 run after a failed update too.
update_driver_database_StampsFailure(state, x) ==
    IF Truthy(state.error) THEN state
    ELSE IF save_driver_status(x) THEN [state EXCEPT !.last_updated = x.now]
    ELSE [state EXCEPT !.last_updated = x.now, !.error = "Database update failed"]

update_driver_database(state, x) ==
    IF Truthy(state.error) THEN state
    ELSE IF save_driver_status(x) THEN [state EXCEPT !.last_updated = x.now]
    ELSE [state EXCEPT !.error = "Database update failed"]

\* The except branch of generate_response, lines 202-211.
TemplateReply(status, location) ==
    IF status = "available"
    THEN "Perfect! Aap " \o (IF location # "" THEN location \o " mein " ELSE "")
         \o "available hain. Load dhundte hain."
    ELSE IF status = "busy" THEN "Samjha Bhai. Safe driving! Trip complete hone par update karna."
    ELSE IF status = "offline" THEN "Theek hai. Rest karo, available hone par message karna."
    ELSE "Message samjh gaya. Kuch aur help chahiye?"

\* generate_response with nothing written when generate_content raises.
generate_response_NoTemplate(state, x) ==
    IF Truthy(state.error)
    THEN [state EXCEPT !.response_message =
            "Apka message mil gaya hai. System mein kuch issue hai, jald theek kar denge."]
    ELSE IF x.reply.ok
    THEN [state EXCEPT !.response_message = remove(remove(strip(x.reply.text), "*"), "\"")]
    ELSE state

generate_response(state, x) ==
    IF Truthy(state.error)
    THEN [state EXCEPT !.response_message =
            "Apka message mil gaya hai. System mein kuch issue hai, jald theek kar denge."]
    ELSE IF x.reply.ok
    THEN [state EXCEPT !.response_message = remove(remove(strip(x.reply.text), "*"), "\"")]
    ELSE [state EXCEPT !.response_message = TemplateReply(state.status, state.location)]

\* log_interaction putting a note of the failed save into the reply.
log_interaction_NotesFailure(state, x) ==
    IF x.database_enabled /\ ~x.ensure
    THEN [state EXCEPT !.response_message = @ \o " (not logged)"]
    ELSE state

\* save_interaction only writes to the store; the state is returned as it came.
log_interaction(state, x) == state

AvailabilityInitialState(message, driver_id) ==
    [original_message |-> message, driver_id |-> driver_id, response_message |-> "",
     status |-> "unknown", location |-> "", vehicle_type |-> "", last_updated |-> "",
     confidence |-> 0, reasoning |-> "", error |-> None]

\* The graph with the edge of line 227 going from analyze to respond.
create_workflow_PastUpdate ==
    [START |-> "analyze", analyze |-> "respond", update_db |-> "respond",
     respond |-> "log_interaction", log_interaction |-> "END"]

\* The edges of the compiled graph: the entry point, and after each node the
\* node that runs next.
create_workflow ==
    [START |-> "analyze", analyze |-> "update_db", update_db |-> "respond",
     respond |-> "log_interaction", log_interaction |-> "END"]

\* The dict process_driver_message returns, lines 244-250.
DriverResult(final_state, database_enabled) ==
    [driver_id |-> final_state.driver_id,
     analysis_status |-> IF ~Truthy(final_state.error) THEN "success" ELSE "failure",
     driver_status |-> final_state.status,
     location |-> final_state.location,
     vehicle_type |-> final_state.vehicle_type,
     confidence |-> final_state.confidence,
     reasoning |-> final_state.reasoning,
     response_sent |-> final_state.response_message,
     error_details |-> final_state.error,
     database_enabled |-> database_enabled]

\* APP.invoke runs analyze -> update_db -> respond -> log_interaction.
process_driver_message(message, driver_id, x) ==
    LET initial_state == AvailabilityInitialState(message, driver_id)
    IN DriverResult(
           log_interaction(
               generate_response(
                   update_driver_database(analyze_availability(initial_state, x), x), x), x),
           x.database_enabled)

(***************************************************************************)
(* agent_router.py: route_message_to_agent.                                *)
(*                                                                         *)
(* The texts of the replies are Hindi with emoji in the source; here they  *)
(* are transliterated to ASCII, one definition per literal.                *)
(* What the import of availability_agent does is the outcome x.import:     *)
(* "ok", "ImportError" (a package or the module is missing) or             *)
(* "ValueError" (availability_agent.py line 21, no GOOGLE_API_KEY); x.text *)
(* is str(e).  x.now1 and x.now2 are the two readings of datetime.now().   *)
(***************************************************************************)
\* int(s) for a string of decimal digits
RECURSIVE ParseInt(_)
ParseInt(s) ==
    IF s = "" THEN 0
    ELSE 10 * ParseInt(Sub(s, 1, Len(s) - 1)) + IndexIn(Digits, Ch(s, Len(s))) - 1

\* str(n) for n >= 0
RECURSIVE IntToStr(_)
IntToStr(n) ==
    IF n < 10 THEN Ch(Digits, n + 1)
    ELSE IntToStr(n \div 10) \o Ch(Digits, (n % 10) + 1)

\* The end of the run of digits that starts at i (i - 1 when s[i] is no digit).
RECURSIVE DigitsEnd(_, _)
DigitsEnd(s, i) == IF i <= Len(s) /\ IsDigit(Ch(s, i)) THEN DigitsEnd(s, i + 1) ELSE i - 1

\* re.search(r'(\d+)', message): the leftmost digit starts the match, which is greedy.
FirstDigits(message) ==
    IF \E i \in 1..Len(message) : IsDigit(Ch(message, i))
    THEN LET i == CHOOSE i \in 1..Len(message) :
                      IsDigit(Ch(message, i)) /\ \A j \in 1..(i - 1) : ~IsDigit(Ch(message, j))
         IN Sub(message, i, DigitsEnd(message, i))
    ELSE ""

AvailabilityImportReply == "Samajh gaya! Aap available hain. Aapka status update ho gaya hai."

GeneralReply(message) ==
    "Namaste!\n\nAap keh rahe hain: '" \o message \o "'\n\nMain aapki madad kar sakta hoon:\n\n"
    \o "Driver status (kahein 'main free hoon' ya 'busy hoon')\n"
    \o "Load search (kahein 'Delhi se Mumbai loads')\n"
    \o "Expense tracking (kahein 'fuel expense 2500')\n\nKya chahiye aaj?"

ApologyReply ==
    "Maaf karein, system mein kuch issue hai. Kripya dobara try karein ya support se contact karein."

Returned(envelope) == [raised |-> FALSE, envelope |-> envelope]

\* Variants of the availability branch, none of them the program: one without
\* the handler of line 116, so that what the inner try does not catch leaves
\* the function,
RouteAvailability_NoHandler(message, driver_id, intent, x) ==
    IF x.import = "ok"
    THEN LET result == process_driver_message(message, driver_id, x)
         IN Returned([type |-> "availability", status |-> "success",
                      driver_status |-> result.driver_status,
                      location |-> result.location,
                      response |-> result.response_sent,
                      routed_to |-> intent, driver_id |-> driver_id, timestamp |-> x.now2])
    ELSE IF x.import = "ImportError"
    THEN Returned([type |-> "availability", status |-> "success",
                   response |-> AvailabilityImportReply,
                   routed_to |-> intent, driver_id |-> driver_id, timestamp |-> x.now2])
    ELSE [raised |-> TRUE, envelope |-> << >>]

\* and one whose handler reports the class of the exception, not str(e).
RouteAvailability_ErrorIsClass(message, driver_id, intent, x) ==
    IF x.import = "ok"
    THEN LET result == process_driver_message(message, driver_id, x)
         IN Returned([type |-> "availability", status |-> "success",
                      driver_status |-> result.driver_status,
                      location |-> result.location,
                      response |-> result.response_sent,
                      routed_to |-> intent, driver_id |-> driver_id, timestamp |-> x.now2])
    ELSE IF x.import = "ImportError"
    THEN Returned([type |-> "availability", status |-> "success",
                   response |-> AvailabilityImportReply,
                   routed_to |-> intent, driver_id |-> driver_id, timestamp |-> x.now2])
    ELSE Returned([type |-> "error", status |-> "failed", error |-> x.import,
                   response |-> ApologyReply,
                   routed_to |-> intent, driver_id |-> driver_id, timestamp |-> x.now2])

\* and one that hands on the pipeline's analysis_status as the status.
RouteAvailability_StatusOfPipeline(message, driver_id, intent, x) ==
    IF x.import = "ok"
    THEN LET result == process_driver_message(message, driver_id, x)
         IN Returned([type |-> "availability",
                      status |-> IF result.analysis_status = "success"
                                 THEN "success" ELSE "failed",
                      driver_status |-> result.driver_status,
                      location |-> result.location,
                      response |-> result.response_sent,
                      routed_to |-> intent, driver_id |-> driver_id, timestamp |-> x.now2])
    ELSE IF x.import = "ImportError"
    THEN Returned([type |-> "availability", status |-> "success",
                   response |-> AvailabilityImportReply,
                   routed_to |-> intent, driver_id |-> driver_id, timestamp |-> x.now2])
    ELSE Returned([type |-> "error", status |-> "failed", error |-> x.text,
                   response |-> ApologyReply,
                   routed_to |-> intent, driver_id |-> driver_id, timestamp |-> x.now2])

\* Lines 46-72: the availability branch with its inner try.
RouteAvailability(message, driver_id, intent, x) ==
    IF x.import = "ok"
    THEN LET result == process_driver_message(message, driver_id, x)
         IN Returned([type |-> "availability", status |-> "success",
                      driver_status |-> result.driver_status,
                      location |-> result.location,
                      response |-> result.response_sent,
                      routed_to |-> intent, driver_id |-> driver_id, timestamp |-> x.now2])
    ELSE IF x.import = "ImportError"
    THEN Returned([type |-> "availability", status |-> "success",
                   response |-> AvailabilityImportReply,
                   routed_to |-> intent, driver_id |-> driver_id, timestamp |-> x.now2])
    \* Any other exception leaves the inner try and reaches line 116.
    ELSE Returned([type |-> "error", status |-> "failed", error |-> x.text,
                   response |-> ApologyReply,
                   routed_to |-> intent, driver_id |-> driver_id, timestamp |-> x.now2])

\* Lines 74-84.
RouteLoadSearch(message, driver_id, intent, x) ==
    Returned([type |-> "load_search", status |-> "success", loads_found |-> 3,
              response |->
                 "Mil gaye 3 loads aapke liye!\n\nDelhi -> Mumbai: $45,000 (15 tons)\n"
                 \o "Chennai -> Bangalore: $32,000 (12 tons)\n"
                 \o "Pune -> Hyderabad: $28,000 (10 tons)\n\n"
                 \o "Kaun sa lena chahte hain? Reply karein load number ke saath.",
              routed_to |-> intent, driver_id |-> driver_id, timestamp |-> x.now2])

\* Lines 86-103.  amount is an int of rupees here, not hundredths.
RouteExpense(message, driver_id, intent, x) ==
    LET amount_match == FirstDigits(message)
        amount == IF amount_match # "" THEN ParseInt(amount_match) ELSE 0
        expense_type == IF Contains(lower(message), "fuel") THEN "fuel"
                        ELSE IF Contains(lower(message), "toll") THEN "toll"
                        ELSE "general"
    IN Returned([type |-> "expense_tracking", status |-> "success",
                 expense_type |-> expense_type, amount |-> amount,
                 response |->
                    "Expense recorded!\n\nType: " \o title(expense_type)
                    \o "\nAmount: $" \o IntToStr(amount) \o "\nDriver: " \o driver_id
                    \o "\nTime: " \o x.now1 \o "\n\nReceipt saved successfully!",
                 routed_to |-> intent, driver_id |-> driver_id, timestamp |-> x.now2])

\* A variant of the general branch that names a fallback as the route.
RouteGeneral_Fallback(message, driver_id, intent, x) ==
    Returned([type |-> "general", status |-> "success", response |-> GeneralReply(message),
              routed_to |-> "fallback", driver_id |-> driver_id, timestamp |-> x.now2])

\* Lines 105-114.
RouteGeneral(message, driver_id, intent, x) ==
    Returned([type |-> "general", status |-> "success", response |-> GeneralReply(message),
              routed_to |-> intent, driver_id |-> driver_id, timestamp |-> x.now2])

route_message_to_agent(message, driver_id, x) ==
    LET intent == classify_message_intent(message)
    IN IF intent = "availability" THEN RouteAvailability(message, driver_id, intent, x)
       ELSE IF intent = "load_search" THEN RouteLoadSearch(message, driver_id, intent, x)
       ELSE IF intent = "expense_tracking" THEN RouteExpense(message, driver_id, intent, x)
       ELSE RouteGeneral(message, driver_id, intent, x)

(***************************************************************************)
(* re.search, as far as the patterns of expense_tracker_agent.py need it.  *)
(* A match is [ok |-> TRUE, group |-> the text of group 1]; NoMatch when   *)
(* the pattern matches nowhere.  re.search returns the match that starts   *)
(* leftmost, and at one start the first that the backtracking order finds. *)
(***************************************************************************)
NoMatch == [ok |-> FALSE, group |-> ""]
Match(text) == [ok |-> TRUE, group |-> text]

\* The match at the least position p in 1..Len(s)+1 where AtPos(s, p) matches.
Search(s, AtPos(_, _)) ==
    LET hits == {p \in 1..(Len(s) + 1) : AtPos(s, p).ok}
    IN IF hits = {} THEN NoMatch
       ELSE AtPos(s, CHOOSE p \in hits : \A q \in hits : p <= q)

\* The first match of a sequence of attempts, in order.
FirstOk(attempts) ==
    LET hits == {k \in DOMAIN attempts : attempts[k].ok}
    IN IF hits = {} THEN NoMatch
       ELSE attempts[CHOOSE k \in hits : \A j \in hits : k <= j]

\* word stands at position p of s
StartsAt(s, p, word) == Sub(s, p, p + Len(word) - 1) = word

\* The number of whitespace characters from position i on.
RECURSIVE SpaceRun(_, _)
SpaceRun(s, i) == IF i <= Len(s) /\ IsSpace(Ch(s, i)) THEN 1 + SpaceRun(s, i + 1) ELSE 0

\* $ : the end of the string, or just before a newline that ends it
AtDollar(s, i) == i = Len(s) + 1 \/ (i = Len(s) /\ Ch(s, i) = "\n")

AllDigits(s, i, j) == j <= Len(s) /\ \A k \in i..j : IsDigit(Ch(s, k))

\* (?:,\d{3})* taken greedily from position i: the position after the last group
RECURSIVE CommaGroupsEnd(_, _)
CommaGroupsEnd(s, i) ==
    IF Ch(s, i) = "," /\ AllDigits(s, i + 1, i + 3) THEN CommaGroupsEnd(s, i + 4) ELSE i

\* \d+(?:,\d{3})*(?:\.\d{2})? taken greedily from position i: the position after it,
\* or i when no digit stands at i.  A shorter way to match the number ends before a
\* digit, a comma or a point, where nothing that follows it in a pattern can match,
\* so the greedy end is the only one that counts.
NumberEnd(s, i) ==
    IF ~(i <= Len(s) /\ IsDigit(Ch(s, i))) THEN i
    ELSE LET e == CommaGroupsEnd(s, DigitsEnd(s, i) + 1)
         IN IF Ch(s, e) = "." /\ AllDigits(s, e + 1, e + 2) THEN e + 3 ELSE e

NumberAt(s, i) == IF NumberEnd(s, i) > i THEN Match(Sub(s, i, NumberEnd(s, i) - 1)) ELSE NoMatch

\* <word>\s*NUMBER (least == 0) or <word>\s+NUMBER (least == 1) at position p
WordNumberAt(s, p, word, least) ==
    IF StartsAt(s, p, word) /\ SpaceRun(s, p + Len(word)) >= least
    THEN NumberAt(s, p + Len(word) + SpaceRun(s, p + Len(word)))
    ELSE NoMatch

\* Pattern 1, line 42.
RupeeAmountAt(s, p) == WordNumberAt(s, p, "~^|", 0)

\* Pattern 2, line 43: NUMBER\s*rupees?
AmountRupeesAt(s, p) ==
    LET e == NumberEnd(s, p)
    IN IF e > p /\ StartsAt(s, e + SpaceRun(s, e), "rupee") THEN NumberAt(s, p) ELSE NoMatch

\* Pattern 3, line 44: rs\.?\s*NUMBER
RsAmountAt(s, p) ==
    IF StartsAt(s, p, "rs.") /\ WordNumberAt(s, p, "rs.", 0).ok THEN WordNumberAt(s, p, "rs.", 0)
    ELSE WordNumberAt(s, p, "rs", 0)

\* Pattern 4, line 45: amount\s*:?\s*NUMBER
LabelAmountAt(s, p) ==
    LET c == p + 6 + SpaceRun(s, p + 6)
    IN IF ~StartsAt(s, p, "amount") THEN NoMatch
       ELSE IF Ch(s, c) = ":" THEN NumberAt(s, c + 1 + SpaceRun(s, c + 1))
       ELSE NumberAt(s, c)

\* Pattern 9, line 50: (?:fuel|diesel|petrol)\s+NUMBER
FuelAmountAt(s, p) ==
    FirstOk(<<WordNumberAt(s, p, "fuel", 1), WordNumberAt(s, p, "diesel", 1),
              WordNumberAt(s, p, "petrol", 1)>>)

\* \d{3,6}(?:\s|$) at position i
BareDigitsAt(s, i) ==
    LET e == DigitsEnd(s, i)
        n == e - i + 1
    IN IF n >= 3 /\ n <= 6 /\ (IsSpace(Ch(s, e + 1)) \/ AtDollar(s, e + 1))
       THEN Match(Sub(s, i, e)) ELSE NoMatch

\* Pattern 10, line 51: (?:^|\s)(\d{3,6})(?:\s|$)
BareAmountAt(s, p) ==
    FirstOk(<<IF p = 1 THEN BareDigitsAt(s, 1) ELSE NoMatch,
              IF p <= Len(s) /\ IsSpace(Ch(s, p)) THEN BareDigitsAt(s, p + 1) ELSE NoMatch>>)

\* float(amount_str) after replace(',', ''), in hundredths.  It cannot raise on the
\* text of a NUMBER.
AmountValue(amount_str) ==
    LET t == remove(amount_str, ",")
        n == Len(t)
    IN IF n >= 3 /\ Ch(t, n - 2) = "."
       THEN 100 * ParseInt(Sub(t, 1, n - 3)) + ParseInt(Sub(t, n - 1, n))
       ELSE 100 * ParseInt(t)

\* Lines 41-52: re.search of each pattern of amount_patterns, in list order.
\* Patterns 5 to 8, lines 46-49, are paid\s*NUMBER, cost\s*NUMBER,
\* expense\s+NUMBER and fee\s+NUMBER.
amount_patterns(message) ==
    <<Search(message, RupeeAmountAt), Search(message, AmountRupeesAt),
      Search(message, RsAmountAt), Search(message, LabelAmountAt),
      Search(message, LAMBDA s, p : WordNumberAt(s, p, "paid", 0)),
      Search(message, LAMBDA s, p : WordNumberAt(s, p, "cost", 0)),
      Search(message, LAMBDA s, p : WordNumberAt(s, p, "expense", 1)),
      Search(message, LAMBDA s, p : WordNumberAt(s, p, "fee", 1)),
      Search(message, FuelAmountAt), Search(message, BareAmountAt)>>

\* Lines 54-65: the first pattern of the list that matches gives the amount.
ExtractAmount(message) ==
    LET m == FirstOk(amount_patterns(message))
    IN IF m.ok THEN AmountValue(m.group) ELSE 0

(***************************************************************************)
(* expense_tracker_agent.py: the tables and parse_expense_message.         *)
(***************************************************************************)
Categories == <<"fuel", "toll", "parking", "maintenance", "food", "other">>

keywords(category) ==
    CASE category = "fuel" -> <<"fuel", "diesel", "petrol", "gas", "pump">>
      [] category = "toll" -> <<"toll", "highway", "expressway", "plaza">>
      [] category = "parking" -> <<"parking", "stand", "halt">>
      [] category = "maintenance" -> <<"repair", "service", "maintenance", "spare", "tyre">>
      [] category = "food" -> <<"food", "meal", "dhaba", "restaurant", "tea", "snacks">>
      [] category = "other" -> <<>>

\* EXPENSE_CATEGORIES[category]["max_amount"], in rupees
max_amount(category) ==
    CASE category = "fuel" -> 50000
      [] category = "toll" -> 5000
      [] category = "parking" -> 1000
      [] category = "maintenance" -> 25000
      [] category = "food" -> 2000
      [] category = "other" -> 10000

\* n rupees in hundredths
Rupees(n) == 100 * n

\* Lines 68-75: the loop over the table keeps the first category with the most
\* keyword matches; detected_category stays "other" while no count exceeds 0.
\* The loop with >= for > at line 72: the last of the categories that tie.
RECURSIVE DetectFrom_LastOfTies(_, _, _, _)
DetectFrom_LastOfTies(message, k, detected_category, max_keywords) ==
    IF k > Len(Categories) THEN detected_category
    ELSE LET keyword_matches == KeywordScore(keywords(Categories[k]), message)
         IN IF keyword_matches >= max_keywords /\ keyword_matches > 0
            THEN DetectFrom_LastOfTies(message, k + 1, Categories[k], keyword_matches)
            ELSE DetectFrom_LastOfTies(message, k + 1, detected_category, max_keywords)

RECURSIVE DetectFrom(_, _, _, _)
DetectFrom(message, k, detected_category, max_keywords) ==
    IF k > Len(Categories) THEN detected_category
    ELSE LET keyword_matches == KeywordScore(keywords(Categories[k]), message)
         IN IF keyword_matches > max_keywords
            THEN DetectFrom(message, k + 1, Categories[k], keyword_matches)
            ELSE DetectFrom(message, k + 1, detected_category, max_keywords)

DetectCategory(message) == DetectFrom(message, 1, "other", 0)

\* A lazy group ( ... +?) that starts at g: its characters are in the class and it
\* ends at the first position after which the rest of the pattern matches.
LazyGroup(s, g, InClass(_), Rest(_, _)) ==
    LET ends == {e \in g..Len(s) : (\A j \in g..e : InClass(Ch(s, j))) /\ Rest(s, e + 1)}
    IN IF ends = {} THEN NoMatch
       ELSE Match(Sub(s, g, CHOOSE e \in ends : \A f \in ends : e <= f))

\* base + n, base + n - 1, ..., base: where a group can start after a greedy \s* (or
\* \s+) that stands at base and has n whitespace characters to give back.
Descending(base, n) == [k \in 1..(n + 1) |-> base + n + 1 - k]

\* (?:\s|$|,)
LocationRest(s, i) == IsSpace(Ch(s, i)) \/ AtDollar(s, i) \/ Ch(s, i) = ","

\* <word>\s+([a-zA-Z\s]+?)(?:\s|$|,) at position p: \s+ is greedy and gives back its
\* whitespace, but for one character, to the group.
PlaceAt(s, p, word, InClass(_), Rest(_, _)) ==
    LET after == p + Len(word)
        a == SpaceRun(s, after)
        starts == Descending(after + 1, a - 1)
    IN IF StartsAt(s, p, word) /\ a >= 1
       THEN FirstOk([k \in DOMAIN starts |-> LazyGroup(s, starts[k], InClass, Rest)])
       ELSE NoMatch

\* <word>\s+([a-zA-Z\s]+?)(?:\s|$|,) at position p; the class is [a-zA-Z\s]
LocationAt(s, p, word) ==
    PlaceAt(s, p, word, LAMBDA c : IsLetter(c) \/ IsSpace(c), LocationRest)

\* Lines 80-94: the patterns of at, in, from and near, in this order.
ExtractLocation(message) ==
    LET m == FirstOk(<<Search(message, LAMBDA s, p : LocationAt(s, p, "at")),
                       Search(message, LAMBDA s, p : LocationAt(s, p, "in")),
                       Search(message, LAMBDA s, p : LocationAt(s, p, "from")),
                       Search(message, LAMBDA s, p : LocationAt(s, p, "near"))>>)
    IN IF m.ok THEN title(strip(m.group)) ELSE ""

\* The end of the run of [A-Z0-9] (case ignored) that starts at i.
RECURSIVE AlnumEnd(_, _)
AlnumEnd(s, i) ==
    IF IsLetter(Ch(s, i)) \/ IsDigit(Ch(s, i)) THEN AlnumEnd(s, i + 1) ELSE i - 1

\* \s*:?\s*([A-Z0-9]+) at position q
AlnumTail(s, q) ==
    LET c == q + SpaceRun(s, q)
        g == IF Ch(s, c) = ":" THEN c + 1 + SpaceRun(s, c + 1) ELSE c
    IN IF AlnumEnd(s, g) >= g THEN Match(Sub(s, g, AlnumEnd(s, g))) ELSE NoMatch

\* <word>\s*(?:<options>)?\s*:?\s*([A-Z0-9]+) at position p: the options are tried
\* in their order, then the pattern without one.
LabelledIdAt(s, p, word, options) ==
    LET after == p + Len(word)
        r == after + SpaceRun(s, after)
    IN IF StartsAt(s, p, word)
       THEN FirstOk([k \in DOMAIN options |->
                        IF StartsAt(s, r, options[k])
                        THEN AlnumTail(s, r + Len(options[k])) ELSE NoMatch]
                    \o <<AlnumTail(s, after)>>)
       ELSE NoMatch

\* Lines 97-108: the patterns of receipt, bill and transaction, in this order.
ExtractReceipt(message) ==
    LET m == FirstOk(<<Search(message, LAMBDA s, p :
                                 LabelledIdAt(s, p, "receipt", <<"no", "number", "#">>)),
                       Search(message, LAMBDA s, p :
                                 LabelledIdAt(s, p, "bill", <<"no", "number", "#">>)),
                       Search(message, LAMBDA s, p :
                                 LabelledIdAt(s, p, "transaction", <<"id", "#">>))>>)
    IN IF m.ok THEN m.group ELSE ""

\* (?:\s+(?:pump|station|plaza|dhaba)|$)
VendorRest(s, i) ==
    \/ /\ SpaceRun(s, i) >= 1
       /\ \E w \in {"pump", "station", "plaza", "dhaba"} : StartsAt(s, i + SpaceRun(s, i), w)
    \/ AtDollar(s, i)

\* <word>\s+([A-Za-z\s&]+?)(?:\s+(?:pump|station|plaza|dhaba)|$) at position p
VendorAt(s, p, word) ==
    PlaceAt(s, p, word, LAMBDA c : IsLetter(c) \/ IsSpace(c) \/ c = "&", VendorRest)

\* Where the group of vendor\s*:?\s*(...) can start, the first \s* taking w1
\* characters or fewer: once it has ended at pos, after the colon and a
\* greedy \s*, then without the colon.
RECURSIVE VendorStarts(_, _, _)
VendorStarts(s, after, w1) ==
    LET pos == after + w1
    IN (IF Ch(s, pos) = ":" THEN Descending(pos + 1, SpaceRun(s, pos + 1)) ELSE << >>)
       \o Descending(pos, SpaceRun(s, pos))
       \o (IF w1 = 0 THEN << >> ELSE VendorStarts(s, after, w1 - 1))

\* vendor\s*:?\s*([A-Za-z\s&]+?)(?:\s|$|,) at position p
VendorLabelAt(s, p) ==
    LET starts == VendorStarts(s, p + 6, SpaceRun(s, p + 6))
    IN IF StartsAt(s, p, "vendor")
       THEN FirstOk([k \in DOMAIN starts |->
                        LazyGroup(s, starts[k],
                                  LAMBDA c : IsLetter(c) \/ IsSpace(c) \/ c = "&",
                                  LocationRest)])
       ELSE NoMatch

\* One turn of the loop of lines 124-129 on the match m: the name it leaves in
\* vendor_name and whether it breaks.
VendorStep(vendor, m) ==
    IF vendor.done \/ ~m.ok THEN vendor
    ELSE [name |-> title(strip(m.group)), done |-> Len(title(strip(m.group))) > 3]

\* Lines 117-131.
ExtractVendor(message) ==
    VendorStep(VendorStep(VendorStep([name |-> "", done |-> FALSE],
                                     Search(message, LAMBDA s, p : VendorAt(s, p, "from"))),
                          Search(message, LAMBDA s, p : VendorAt(s, p, "at"))),
               Search(message, VendorLabelAt)).name

\* The parse without lines 112-113: no receipt number is made up.
parse_expense_message_NoGeneratedReceipt(state, x) ==
    LET message == lower(state.message)
    IN [state EXCEPT !.amount = ExtractAmount(message),
                     !.expense_type = DetectCategory(message),
                     !.location = ExtractLocation(message),
                     !.receipt_number = ExtractReceipt(message),
                     !.vendor_name = ExtractVendor(message),
                     !.timestamp = x.now]

\* x.receipt_suffix is random.randint(10000, 99999), x.now datetime.now() as
\* '%Y-%m-%d %H:%M:%S'.
parse_expense_message(state, x) ==
    LET message == lower(state.message)
        extracted_amount == ExtractAmount(message)
        found == ExtractReceipt(message)
        receipt_number == IF found = "" /\ extracted_amount > 0
                          THEN "EXP" \o IntToStr(x.receipt_suffix) ELSE found
    IN [state EXCEPT !.amount = extracted_amount,
                     !.expense_type = DetectCategory(message),
                     !.location = ExtractLocation(message),
                     !.receipt_number = receipt_number,
                     !.vendor_name = ExtractVendor(message),
                     !.timestamp = x.now]

(***************************************************************************)
(* expense_tracker_agent.py: validate, save, respond.                      *)
(* confidence_score is round(score * 100, 1) of a sum of the weights 0.4,  *)
(* 0.2, 0.15, 0.15 and 0.1; for each of the 32 sums that float is a whole  *)
(* number, held here as an integer (100.0 is 100).                         *)
(* The emoji of the reply texts are left out.                              *)
(***************************************************************************)
\* n as d digits, zero-padded on the left
RECURSIVE Padded(_, _)
Padded(n, d) == IF d = 0 THEN "" ELSE Padded(n \div 10, d - 1) \o Ch(Digits, (n % 10) + 1)

\* format(n, ',') for an integer n >= 0
RECURSIVE Grouped(_)
Grouped(n) == IF n < 1000 THEN IntToStr(n) ELSE Grouped(n \div 1000) \o "," \o Padded(n % 1000, 3)

\* f"{amount:,.2f}" for an amount in hundredths
FormatMoney(amount) == Grouped(amount \div 100) \o "." \o Padded(amount % 100, 2)

\* A variant of lines 180-205 that gives the location 25 points, not 15.
calculate_confidence_score_HeavyLocation(state) ==
    (IF state.amount > 0 THEN 40 ELSE 0)
    + (IF state.expense_type # "other" THEN 20 ELSE 0)
    + (IF state.receipt_number # "" THEN 15 ELSE 0)
    + (IF state.location # "" THEN 25 ELSE 0)
    + (IF state.vendor_name # "" THEN 10 ELSE 0)

calculate_confidence_score(state) ==
    (IF state.amount > 0 THEN 40 ELSE 0)
    + (IF state.expense_type # "other" THEN 20 ELSE 0)
    + (IF state.receipt_number # "" THEN 15 ELSE 0)
    + (IF state.location # "" THEN 15 ELSE 0)
    + (IF state.vendor_name # "" THEN 10 ELSE 0)

\* A variant of lines 146-149 that reports an amount over the ceiling as an
\* error, not as a warning.
AmountFindings_CeilingIsError(state) ==
    IF state.amount <= 0
    THEN [validation_errors |-> <<"Amount not found or invalid">>, warnings |-> << >>]
    ELSE IF state.amount > Rupees(max_amount(state.expense_type))
    THEN [validation_errors |-> <<"Amount seems high for " \o state.expense_type>>,
          warnings |-> << >>]
    ELSE [validation_errors |-> << >>, warnings |-> << >>]

\* Lines 146-149.
AmountFindings(state) ==
    IF state.amount <= 0
    THEN [validation_errors |-> <<"Amount not found or invalid">>, warnings |-> << >>]
    ELSE IF state.amount > Rupees(max_amount(state.expense_type))
    THEN [validation_errors |-> << >>,
          warnings |-> <<"Amount seems high for " \o state.expense_type \o " ($"
                         \o FormatMoney(state.amount) \o ")">>]
    ELSE [validation_errors |-> << >>, warnings |-> << >>]

\* Lines 152-160.
CategoryWarnings(state) ==
    (IF state.expense_type = "fuel" /\ state.amount < Rupees(100)
     THEN <<"Fuel amount seems unusually low">> ELSE << >>)
    \o (IF state.expense_type = "toll" /\ state.amount > Rupees(2000)
        THEN <<"Toll amount seems high - please verify">> ELSE << >>)
    \o (IF state.location = "" /\ state.expense_type \in {"fuel", "toll", "parking"}
        THEN <<"Location not specified - this may be required for reimbursement">>
        ELSE << >>)

validate_expense_data(state) ==
    LET validation_errors == AmountFindings(state).validation_errors
        warnings == AmountFindings(state).warnings \o CategoryWarnings(state)
        validation_status == IF validation_errors # << >> THEN "failed"
                             ELSE IF warnings # << >> THEN "warning"
                             ELSE "passed"
    IN [state EXCEPT !.validation_status = validation_status,
                     !.extracted_data = [validation_errors |-> validation_errors,
                                         warnings |-> warnings,
                                         confidence_score |-> calculate_confidence_score(state)]]

\* Lines 213-225: the record save_expense_record builds and logs as saved.
\* x.now_id is datetime.now() as '%Y%m%d_%H%M%S'.
expense_record(state, x) ==
    [expense_id |-> "EXP_" \o x.now_id,
     driver_id |-> state.driver_id,
     type |-> state.expense_type,
     amount |-> state.amount,
     location |-> state.location,
     vendor |-> state.vendor_name,
     receipt_number |-> state.receipt_number,
     timestamp |-> state.timestamp,
     trip_id |-> state.trip_id,
     validation_status |-> state.validation_status,
     confidence_score |-> state.extracted_data.confidence_score]

\* save_expense_record keeping the id of the record it built under trip_id.
save_expense_record_KeepsId(state) == [state EXCEPT !.trip_id = "EXP_20250914_191501"]

\* The state save_expense_record returns.
save_expense_record(state) == state

\* ", ".join(items)
RECURSIVE Join(_, _)
Join(items, sep) ==
    IF items = << >> THEN ""
    ELSE IF Len(items) = 1 THEN items[1]
    ELSE items[1] \o sep \o Join(Tail(items), sep)

RECURSIVE Bullets(_)
Bullets(warnings) ==
    IF warnings = << >> THEN "" ELSE "* " \o warnings[1] \o "\n" \o Bullets(Tail(warnings))

FailureReply(state) ==
    "**Expense Recording Failed**\n\nIssues found: "
    \o Join(state.extracted_data.validation_errors, ", ")
    \o "\n\nPlease provide more details or try again with format:\n"
    \o "'Fuel expense $1500 at Delhi HP Pump'"

SuccessReply(state) ==
    "**Expense Recorded Successfully!**\n\n"
    \o "**Type:** " \o title(state.expense_type) \o "\n"
    \o "**Amount:** $" \o FormatMoney(state.amount) \o "\n"
    \o (IF state.location # "" THEN "**Location:** " \o state.location \o "\n" ELSE "")
    \o (IF state.vendor_name # "" THEN "**Vendor:** " \o state.vendor_name \o "\n" ELSE "")
    \o "**Receipt #:** " \o state.receipt_number \o "\n"
    \o "**Time:** " \o state.timestamp \o "\n"
    \o "**Confidence:** " \o IntToStr(state.extracted_data.confidence_score) \o ".0%\n"
    \o (IF state.validation_status = "warning"
        THEN "\n**Notices:**\n" \o Bullets(state.extracted_data.warnings) ELSE "")
    \o "\n**Next Steps:**\n"
    \o "* Expense added to your trip record\n"
    \o "* Receipt will be processed for reimbursement\n"
    \o "* Check monthly summary with 'expense report'"

\* generate_expense_response without the branch of lines 235-238.
generate_expense_response_AlwaysSummary(state) ==
    [state EXCEPT !.response_message = SuccessReply(state)]

generate_expense_response(state) ==
    IF state.validation_status = "failed"
    THEN [state EXCEPT !.response_message = FailureReply(state)]
    ELSE [state EXCEPT !.response_message = SuccessReply(state)]

ExpenseInitialState(message, driver_id) ==
    [message |-> message, driver_id |-> driver_id, expense_type |-> "other", amount |-> 0,
     location |-> "", receipt_number |-> "", vendor_name |-> "", timestamp |-> "",
     trip_id |-> None, extracted_data |-> << >>, response_message |-> "",
     validation_status |-> "pending"]

\* The edges of the compiled graph: after START and after each node, the node
\* that runs next.
create_expense_tracker_workflow ==
    [START |-> "parse", parse |-> "validate", validate |-> "save", save |-> "respond",
     respond |-> "END"]

\* The dict process_expense_message returns, lines 323-334.
ExpenseResult(final_state) ==
    [type |-> "expense_tracking",
     status |-> IF final_state.validation_status # "failed" THEN "success" ELSE "failed",
     expense_type |-> final_state.expense_type,
     amount |-> final_state.amount,
     location |-> final_state.location,
     receipt_number |-> final_state.receipt_number,
     validation_status |-> final_state.validation_status,
     confidence_score |-> final_state.extracted_data.confidence_score,
     response |-> final_state.response_message,
     timestamp |-> final_state.timestamp]

\* workflow.invoke runs parse -> validate -> save -> respond.
process_expense_message(message, driver_id, x) ==
    LET initial_state == ExpenseInitialState(message, driver_id)
    IN ExpenseResult(
           generate_expense_response(
               save_expense_record(
                   validate_expense_data(parse_expense_message(initial_state, x)))))

(***************************************************************************)
(* load_finder_agent.py.  The rupee sign of the rates is written "$"; the  *)
(* profitability score, a float of two decimals, is kept in hundredths.    *)
(***************************************************************************)
MOCK_LOADS ==
    <<[load_id |-> "LD001", source |-> "Delhi", destination |-> "Mumbai",
       material |-> "Electronics", weight |-> "10 tons", vehicle_type |-> "truck",
       rate |-> "$45,000", loading_date |-> "2025-09-12", urgency |-> "normal",
       company |-> "TechCorp Ltd"],
      [load_id |-> "LD002", source |-> "Mumbai", destination |-> "Bangalore",
       material |-> "Textiles", weight |-> "8 tons", vehicle_type |-> "truck",
       rate |-> "$32,000", loading_date |-> "2025-09-11", urgency |-> "urgent",
       company |-> "Fashion House"],
      [load_id |-> "LD003", source |-> "Chennai", destination |-> "Hyderabad",
       material |-> "Auto Parts", weight |-> "12 tons", vehicle_type |-> "truck",
       rate |-> "$28,000", loading_date |-> "2025-09-13", urgency |-> "normal",
       company |-> "AutoMakers Inc"],
      [load_id |-> "LD004", source |-> "Delhi", destination |-> "Kolkata",
       material |-> "FMCG Products", weight |-> "15 tons", vehicle_type |-> "truck",
       rate |-> "$52,000", loading_date |-> "2025-09-12", urgency |-> "high",
       company |-> "Consumer Goods Ltd"],
      [load_id |-> "LD005", source |-> "Pune", destination |-> "Delhi",
       material |-> "Machinery", weight |-> "20 tons", vehicle_type |-> "trailer",
       rate |-> "$65,000", loading_date |-> "2025-09-14", urgency |-> "normal",
       company |-> "Heavy Industries"]>>

\* s.find(sub, start), counted from 1; 0 when sub does not occur from start on
RECURSIVE Find(_, _, _)
Find(s, sub, start) ==
    IF start + Len(sub) - 1 > Len(s) THEN 0
    ELSE IF Sub(s, start, start + Len(sub) - 1) = sub THEN start
    ELSE Find(s, sub, start + 1)

\* s.split(sep) for a separator that is not empty
RECURSIVE Split(_, _)
Split(s, sep) ==
    LET at == Find(s, sep, 1)
    IN IF at = 0 THEN <<s>>
       ELSE <<Sub(s, 1, at - 1)>> \o Split(Sub(s, at + Len(sep), Len(s)), sep)

\* the end of the run of characters that are not white space and start at i
RECURSIVE WordEnd(_, _)
WordEnd(s, i) == IF i <= Len(s) /\ ~IsSpace(Ch(s, i)) THEN WordEnd(s, i + 1) ELSE i - 1

\* s.split(): the words between runs of white space, read from position i on
RECURSIVE WordsFrom(_, _)
WordsFrom(s, i) ==
    IF i > Len(s) THEN << >>
    ELSE IF IsSpace(Ch(s, i)) THEN WordsFrom(s, i + 1)
    ELSE <<Sub(s, i, WordEnd(s, i))>> \o WordsFrom(s, WordEnd(s, i) + 1)

\* route, lines 93-97: the places of "from X to Y"; nothing is written when
\* the text after the first "from" holds no "to".  capacity, lines 108-117:
\* the word before the first word, not the first of the query, that holds
\* "ton"; None when there is no such word.
parse_load_query(state) ==
    LET query == lower(state.query)
        parts == Split(Split(query, "from")[2], "to")
        route ==
            IF Contains(query, "from") /\ Contains(query, "to") /\ Len(parts) >= 2
            THEN [found |-> TRUE, source |-> title(strip(parts[1])),
                  destination |-> title(strip(parts[2]))]
            ELSE [found |-> FALSE]
        words == WordsFrom(query, 1)
        hits == {i \in 2..Len(words) : Contains(words[i], "ton")}
        capacity ==
            IF Contains(query, "ton") /\ hits # {}
            THEN words[(CHOOSE i \in hits : \A j \in hits : i <= j) - 1]
            ELSE None
    IN [state EXCEPT
          !.source_location = IF route.found THEN route.source ELSE @,
          !.destination_location = IF route.found THEN route.destination ELSE @,
          !.vehicle_type = IF Contains(query, "truck") THEN "truck"
                           ELSE IF Contains(query, "trailer") THEN "trailer"
                           ELSE "any",
          !.load_capacity = IF capacity # None THEN capacity \o " tons" ELSE @]

\* The score with the vehicle type tested whatever was asked for, "any" too.
match_score_AnyVehicleCounts(state, load) ==
    (IF state.source_location # ""
        /\ Contains(lower(load.source), lower(state.source_location)) THEN 3 ELSE 0)
    + (IF state.destination_location # ""
          /\ Contains(lower(load.destination), lower(state.destination_location))
       THEN 3 ELSE 0)
    + (IF state.vehicle_type = load.vehicle_type \/ state.vehicle_type = "any"
       THEN 2 ELSE 0)

\* Lines 130-146.
match_score(state, load) ==
    (IF state.source_location # ""
        /\ Contains(lower(load.source), lower(state.source_location)) THEN 3 ELSE 0)
    + (IF state.destination_location # ""
          /\ Contains(lower(load.destination), lower(state.destination_location))
       THEN 3 ELSE 0)
    + (IF state.vehicle_type # "any" /\ state.vehicle_type = load.vehicle_type
       THEN 2 ELSE 0)

\* The record load with one more key.
WithKey(load, key, value) ==
    [k \in DOMAIN load \cup {key} |-> IF k = key THEN value ELSE load[k]]

\* The order list.sort(reverse=True) gives the first n items, keys[i] being the
\* key of the i-th: descending, items of equal keys in their old order.
RECURSIVE OrderDescending(_, _)
OrderDescending(keys, n) ==
    IF n = 0 THEN << >>
    ELSE LET rest == OrderDescending(keys, n - 1)
             NotBelow(i) == keys[i] >= keys[n]
             Below(i) == keys[i] < keys[n]
         IN SelectSeq(rest, NotBelow) \o <<n>> \o SelectSeq(rest, Below)

\* items.sort(key=..., reverse=True)
SortedDescending(items, keys) ==
    LET order == OrderDescending(keys, Len(items))
    IN [i \in 1..Len(items) |-> items[order[i]]]

\* The loads of MOCK_LOADS from the i-th on that line 149 keeps.  x.loads is
\* the list MOCK_LOADS as the node finds it; x.random[i] tells whether
\* random.random() > 0.7 for the i-th load; it is only asked for when the
\* score is zero.  load.copy() of line 150 is the record load itself, a value.
RECURSIVE Candidates(_, _, _)
Candidates(state, x, i) ==
    IF i > Len(x.loads) THEN << >>
    ELSE LET load == x.loads[i]
             score == match_score(state, load)
         IN (IF score > 0 \/ x.random[i]
             THEN <<WithKey(load, "match_score", score)>> ELSE << >>)
            \o Candidates(state, x, i + 1)

\* The key of line 155, the tuple (match_score, urgency == "urgent"), is held
\* as one number.
search_available_loads(state, x) ==
    LET candidates == Candidates(state, x, 1)
        key(load) == 2 * load.match_score + (IF load.urgency = "urgent" THEN 1 ELSE 0)
        available_loads == SortedDescending(candidates,
                               [i \in DOMAIN candidates |-> key(candidates[i])])
    IN [state EXCEPT !.available_loads =
           SubSeq(available_loads, 1, IF Len(available_loads) < 5 THEN Len(available_loads) ELSE 5)]

\* round(p / q, 0) for p >= 0 and q > 0, a tie going to the even neighbour
RoundedQuotient(p, q) ==
    LET down == p \div q
        twice == 2 * (p % q)
    IN IF twice > q \/ (twice = q /\ down % 2 = 1) THEN down + 1 ELSE down

\* The score with the bonus of an urgent load below that of a normal one.
profitability_score_UrgentBelow(load) ==
    LET rate_value == ParseInt(remove(remove(load.rate, "$"), ","))
        weight_value == ParseInt(WordsFrom(load.weight, 1)[1])
        urgency_bonus == IF load.urgency = "urgent" THEN 7
                         ELSE IF load.urgency = "high" THEN 12
                         ELSE 10
    IN RoundedQuotient(rate_value * urgency_bonus, weight_value * 10)

\* Lines 172-182, in hundredths: rate / (weight * 100) times the urgency bonus.
profitability_score(load) ==
    LET rate_value == ParseInt(remove(remove(load.rate, "$"), ","))
        weight_value == ParseInt(WordsFrom(load.weight, 1)[1])
        urgency_bonus == IF load.urgency = "urgent" THEN 13
                         ELSE IF load.urgency = "high" THEN 12
                         ELSE 10
    IN RoundedQuotient(rate_value * urgency_bonus, weight_value * 10)

rank_and_filter_loads(state) ==
    LET matched_loads ==
            [i \in DOMAIN state.available_loads |->
                WithKey(state.available_loads[i], "profitability_score",
                        profitability_score(state.available_loads[i]))]
    IN [state EXCEPT !.matched_loads =
           SortedDescending(matched_loads,
               [i \in DOMAIN matched_loads |-> matched_loads[i].profitability_score])]

\* str() of a float given in hundredths: 4500 is "45.0", 4160 is "41.6"
FloatStr(hundredths) ==
    IntToStr(hundredths \div 100) \o "."
    \o (IF hundredths % 10 = 0 THEN IntToStr((hundredths % 100) \div 10)
        ELSE Padded(hundredths % 100, 2))

\* Lines 202-212: the block of the i-th load; the emoji are written as words.
LoadBlock(load, i) ==
    (IF load.urgency = "urgent" THEN "(fire)"
     ELSE IF load.urgency = "high" THEN "(bolt)" ELSE "(box)")
    \o " **Load #" \o IntToStr(i) \o "**\n"
    \o "(pin) **Route:** " \o load.source \o " -> " \o load.destination \o "\n"
    \o "(box) **Material:** " \o load.material \o " (" \o load.weight \o ")\n"
    \o "(money) **Rate:** " \o load.rate \o "\n"
    \o "(date) **Loading:** " \o load.loading_date \o "\n"
    \o "(office) **Company:** " \o load.company \o "\n"
    \o "(star) **Score:** " \o FloatStr(load.profitability_score) \o "/10\n"
    \o "----------------------------------------" \o "\n\n"

\* The blocks without the slice [:3] of line 201.
RECURSIVE LoadBlocks_Unsliced(_, _)
LoadBlocks_Unsliced(loads, i) ==
    IF i > Len(loads) THEN ""
    ELSE LoadBlock(loads[i], i) \o LoadBlocks_Unsliced(loads, i + 1)

RECURSIVE LoadBlocks(_, _)
LoadBlocks(loads, i) ==
    IF i > Len(loads) \/ i > 3 THEN ""
    ELSE LoadBlock(loads[i], i) \o LoadBlocks(loads, i + 1)

generate_load_response(state) ==
    IF state.matched_loads = << >>
    THEN [state EXCEPT !.response_message =
            "(x) No loads found matching your criteria. "
            \o "Try different locations or vehicle types."]
    ELSE [state EXCEPT !.response_message =
            "(truck) **AVAILABLE LOADS FOUND:**\n\n"
            \o LoadBlocks(state.matched_loads, 1)
            \o (IF Len(state.matched_loads) > 3
                THEN "(list) *Found " \o IntToStr(Len(state.matched_loads) - 3)
                     \o " more loads. Contact for details.*\n\n"
                ELSE "")
            \o "(bulb) **Next Steps:**\n"
            \o "* Reply with load number to get contact details\n"
            \o "* Say 'book Load #1' to reserve the trip\n"
            \o "* Search again with different criteria anytime"]

LoadInitialState(query) ==
    [query |-> query, source_location |-> "", destination_location |-> "",
     vehicle_type |-> "any", load_capacity |-> "", available_loads |-> << >>,
     matched_loads |-> << >>, response_message |-> ""]

\* The edges of the compiled graph: after START and after each node, the node
\* that runs next.
create_load_finder_workflow ==
    [START |-> "parse_query", parse_query |-> "search_loads",
     search_loads |-> "rank_loads", rank_loads |-> "generate_response",
     generate_response |-> "END"]

\* workflow.invoke runs parse_query -> search_loads -> rank_loads ->
\* generate_response.
process_load_search(query, driver_id, x) ==
    LET initial_state == LoadInitialState(query)
        final_state ==
            generate_load_response(
                rank_and_filter_loads(
                    search_available_loads(parse_load_query(initial_state), x)))
    IN [type |-> "load_search", status |-> "success", query |-> query,
        source |-> final_state.source_location,
        destination |-> final_state.destination_location,
        loads_found |-> Len(final_state.matched_loads),
        response |-> final_state.response_message,
        timestamp |-> x.now]

(***************************************************************************)
(* Inputs.                                                                 *)
(***************************************************************************)
\* The messages of at most n phrases joined by single spaces.
RECURSIVE JoinedUpTo(_, _)
JoinedUpTo(phrases, n) ==
    IF n = 0 THEN {""}
    ELSE LET shorter == JoinedUpTo(phrases, n - 1)
         IN shorter \cup {IF m = "" THEN p ELSE m \o " " \o p : m \in shorter, p \in phrases}

RouterMessages ==
    JoinedUpTo({"hello", "find", "free", "I am busy with a trip", "loads",
                "truck loads from Delhi to Mumbai", "Fuel expense 2500 at Delhi",
                "toll 200"}, MaxParts)

ExpenseMessages ==
    JoinedUpTo({"hello", "Fuel expense 2500 at Delhi", "paid 60000 for diesel",
                "toll 3,000.50 rupees", "fuel 50", "fuel 0", "receipt AB12",
                "from Indian Oil pump", "$1,500", "1500 rupees", "highway toll"},
               MaxParts)

\* What a driver writes about himself: words of every branch of the fallback
\* of analyze_availability, a city and a vehicle.
AvailabilityMessages ==
    JoinedUpTo({"hello", "Main free hun", "I am busy with a trip", "Rest kar raha hun", "delivery",
                "Delhi mein", "tanker", "trip complete"}, MaxParts)

\* What a driver asks of the load finder.
LoadQueries ==
    JoinedUpTo({"loads", "from Delhi to Mumbai", "from Pune", "to Kolkata", "truck",
                "15 ton trailer", "need", "from Pune to elhi"}, MaxParts)

Drivers == {"d1", "driver_123"}

\* Readings of datetime.now(), as '%Y-%m-%d %H:%M:%S'.
Clock == {"2025-09-14 19:15:00", "2025-09-14 19:15:01"}

\* The outcomes of one availability run that was imported.  The store is not
\* configured, or configured with each call passing or raising; the Gemini
\* model raises or answers the analysis prompt (schema-valid) and the reply
\* prompt.
AvailabilityOutcomes ==
    LET Stores ==
            {[database_enabled |-> FALSE, ensure |-> TRUE, update |-> TRUE]}
            \cup {[database_enabled |-> TRUE, ensure |-> e, update |-> u] : e, u \in BOOLEAN}
        Analyses ==
            {[ok |-> FALSE],
             [ok |-> TRUE, status |-> "available", location |-> "Delhi",
              vehicle_type |-> "truck", confidence |-> 95,
              reasoning |-> "Driver says he is free."],
             [ok |-> TRUE, status |-> "on leave", location |-> "", vehicle_type |-> "",
              confidence |-> 40, reasoning |-> "Unclear."]}
        Replies == {[ok |-> FALSE], [ok |-> TRUE, text |-> " *Theek hai*, \"noted\". "]}
    IN {[import |-> "ok", text |-> "", database_enabled |-> s.database_enabled,
         ensure |-> s.ensure, update |-> s.update, analysis |-> a, reply |-> r,
         now |-> "2025-09-14T19:15:00.000001"] : s \in Stores, a \in Analyses, r \in Replies}

\* The import of availability_agent failing.
ImportFailures ==
    {[import |-> "ImportError", text |-> "No module named 'google'"],
     [import |-> "ValueError", text |-> "GOOGLE_API_KEY not found in environment variables."]}

\* The outcomes of one load search: for each load of MOCK_LOADS, whether
\* random.random() comes out above 0.7.
LoadOutcomes ==
    {[loads |-> MOCK_LOADS, random |-> r, now |-> "2025-09-14 19:15:00"] :
        r \in [DOMAIN MOCK_LOADS -> BOOLEAN]}

\* The outcomes of one expense run: random.randint(10000, 99999) and the clock.
ExpenseOutcomes ==
    {[receipt_suffix |-> suffix, now |-> now] : suffix \in {10000, 99999}, now \in Clock}

(***************************************************************************)
(* What a specification leaves out has not been called: every machine not  *)
(* named in running stays where it is.                                     *)
(***************************************************************************)
Idle(running) ==
    /\ "router" \notin running =>
          /\ r_pc = "idle" /\ r_message = "" /\ r_driver = "" /\ r_intent = None
          /\ r_raised = FALSE /\ r_fault = [import |-> "ok", text |-> ""]
          /\ r_envelope = << >>
    /\ "expense" \notin running =>
          /\ e_pc = "idle" /\ e_state = ExpenseInitialState("", "")
          /\ e_records = << >> /\ e_trace = << >> /\ e_result = None
    /\ "validate" \notin running =>
          /\ v_done = TRUE /\ v_state = ExpenseInitialState("", "")
    /\ "availability" \notin running =>
          /\ a_pc = "idle" /\ a_db = FALSE /\ a_state = AvailabilityInitialState("", "")
          /\ a_trace = << >> /\ a_calls = << >> /\ a_result = None
    /\ "load" \notin running =>
          /\ l_pc = "idle" /\ l_state = LoadInitialState("") /\ l_trace = << >>
    /\ "searches" \notin running =>
          /\ s_loads = MOCK_LOADS /\ s_pc = << >> /\ s_state = << >> /\ s_draw = << >>
    /\ "ensure" \notin running =>
          /\ d_table = << >> /\ d_pc = << >> /\ d_driver = << >> /\ d_issued = << >>

(***************************************************************************)
(* The router: one call of route_message_to_agent.                         *)
(***************************************************************************)
Init ==
    /\ r_pc = "called"
    /\ r_message \in RouterMessages
    /\ r_driver \in Drivers
    /\ r_intent = None
    /\ r_raised = FALSE
    /\ r_fault = [import |-> "ok", text |-> ""]
    /\ r_envelope = << >>
    /\ Idle({"router"})

\* The call returns (or raises).  Only the availability branch meets the
\* world: w is what the import and the pipeline do; now1 and now2 are the
\* readings of the clock.
Route ==
    /\ r_pc = "called"
    /\ \E now2 \in Clock :
       \E w \in IF classify_message_intent(r_message) = "availability"
                THEN AvailabilityOutcomes \cup ImportFailures
                ELSE {[import |-> "ok", text |-> ""]} :
          LET x == [k \in DOMAIN w \cup {"now1", "now2"} |->
                      IF k = "now1" THEN "14/09/2025 19:15"
                      ELSE IF k = "now2" THEN now2 ELSE w[k]]
              result == route_message_to_agent(r_message, r_driver, x)
          IN /\ r_pc' = "returned"
             /\ r_intent' = classify_message_intent(r_message)
             /\ r_raised' = result.raised
             /\ r_fault' = [import |-> x.import, text |-> x.text]
             /\ r_envelope' = result.envelope
             /\ UNCHANGED <<r_message, r_driver>>
    /\ UNCHANGED <<e_vars, v_vars, a_vars, l_vars, c_vars>>

(***************************************************************************)
(* The expense pipeline: one run of process_expense_message, node by node. *)
(* A node takes the state, and the edge that leaves it names the next.     *)
(***************************************************************************)
InitExpense ==
    /\ e_pc = create_expense_tracker_workflow.START
    /\ \E m \in ExpenseMessages, d \in Drivers : e_state = ExpenseInitialState(m, d)
    /\ e_records = << >>
    /\ e_trace = << >>
    /\ e_result = None
    /\ Idle({"expense"})

ExpParse ==
    /\ e_pc = "parse"
    /\ \E x \in ExpenseOutcomes : e_state' = parse_expense_message(e_state, x)
    /\ e_pc' = create_expense_tracker_workflow.parse
    /\ e_trace' = Append(e_trace, "parse")
    /\ UNCHANGED <<e_records, e_result, r_vars, v_vars, a_vars, l_vars, c_vars>>

ExpValidate ==
    /\ e_pc = "validate"
    /\ e_state' = validate_expense_data(e_state)
    /\ e_pc' = create_expense_tracker_workflow.validate
    /\ e_trace' = Append(e_trace, "validate")
    /\ UNCHANGED <<e_records, e_result, r_vars, v_vars, a_vars, l_vars, c_vars>>

ExpSave ==
    /\ e_pc = "save"
    /\ e_records' = Append(e_records, expense_record(e_state, [now_id |-> "20250914_191501"]))
    /\ e_state' = save_expense_record(e_state)
    /\ e_pc' = create_expense_tracker_workflow.save
    /\ e_trace' = Append(e_trace, "save")
    /\ UNCHANGED <<e_result, r_vars, v_vars, a_vars, l_vars, c_vars>>

ExpRespond ==
    /\ e_pc = "respond"
    /\ e_state' = generate_expense_response(e_state)
    /\ e_pc' = create_expense_tracker_workflow.respond
    /\ e_trace' = Append(e_trace, "respond")
    /\ UNCHANGED <<e_records, e_result, r_vars, v_vars, a_vars, l_vars, c_vars>>

\* workflow.invoke has returned the final state; process_expense_message
\* returns its dict.
ExpReturn ==
    /\ e_pc = "END"
    /\ e_result' = ExpenseResult(e_state)
    /\ e_pc' = "returned"
    /\ UNCHANGED <<e_state, e_records, e_trace, r_vars, v_vars, a_vars, l_vars, c_vars>>

(***************************************************************************)
(* validate_expense_data as a function: its input fields drawn freely.     *)
(***************************************************************************)
\* The amounts are those at and next to every threshold of the validation rules.
InitValidate ==
    /\ v_done = FALSE
    /\ \E a \in {0, 1} \cup {Rupees(n) + d :
                                n \in {100, 1000, 2000, 5000, 10000, 25000, 50000, 60000},
                                d \in {-1, 0, 1}},
          c \in {Categories[k] : k \in DOMAIN Categories},
          l \in {"", "Delhi"}, r \in {"", "EXP10000"}, n \in {"", "Indian Oil"} :
          v_state = [ExpenseInitialState("", "d1") EXCEPT
                        !.amount = a, !.expense_type = c, !.location = l,
                        !.receipt_number = r, !.vendor_name = n]
    /\ Idle({"validate"})

Validate ==
    /\ ~v_done
    /\ v_state' = validate_expense_data(v_state)
    /\ v_done' = TRUE
    /\ UNCHANGED <<r_vars, e_vars, a_vars, l_vars, c_vars>>

(***************************************************************************)
(* The availability pipeline: one run of process_driver_message, node by   *)
(* node.  Each node meets the store and the model afresh: x is what they   *)
(* do during that node, under the DATABASE_ENABLED of the process.         *)
(***************************************************************************)
InitAvailability ==
    /\ a_pc = create_workflow.START
    /\ a_db \in BOOLEAN
    /\ \E m \in AvailabilityMessages, d \in Drivers :
          a_state = AvailabilityInitialState(m, d)
    /\ a_trace = << >>
    /\ a_calls = << >>
    /\ a_result = None
    /\ Idle({"availability"})

\* ensure_driver_exists asks the store when it is enabled; the Gemini model
\* is asked only past line 113.
AvAnalyze ==
    /\ a_pc = "analyze"
    /\ \E x \in AvailabilityOutcomes :
          /\ x.database_enabled = a_db
          /\ a_state' = analyze_availability(a_state, x)
          /\ a_calls' = a_calls
                \o (IF a_db
                    THEN <<[node |-> "analyze", call |-> "drivers.select", ok |-> x.ensure]>>
                    ELSE << >>)
                \o (IF ensure_driver_exists(x)
                    THEN <<[node |-> "analyze", call |-> "generate_content",
                            ok |-> x.analysis.ok]>>
                    ELSE << >>)
    /\ a_pc' = create_workflow.analyze
    /\ a_trace' = Append(a_trace, "analyze")
    /\ UNCHANGED <<a_db, a_result, r_vars, e_vars, v_vars, l_vars, c_vars>>

\* The node without the early return of line 166: the update is tried even
\* when analyze left an error.
AvUpdate_AlwaysAttempts ==
    /\ a_pc = "update_db"
    /\ \E x \in AvailabilityOutcomes :
          /\ x.database_enabled = a_db
          /\ a_state' = IF save_driver_status(x)
                        THEN [a_state EXCEPT !.last_updated = x.now]
                        ELSE [a_state EXCEPT !.error = "Database update failed"]
          /\ a_calls' = a_calls
                \o (IF a_db
                    THEN <<[node |-> "update_db", call |-> "drivers.update", ok |-> x.update]>>
                    ELSE << >>)
    /\ a_pc' = create_workflow.update_db
    /\ a_trace' = Append(a_trace, "update_db")
    /\ UNCHANGED <<a_db, a_result, r_vars, e_vars, v_vars, l_vars, c_vars>>

AvUpdate ==
    /\ a_pc = "update_db"
    /\ \E x \in AvailabilityOutcomes :
          /\ x.database_enabled = a_db
          /\ a_state' = update_driver_database(a_state, x)
          /\ a_calls' = a_calls
                \o (IF ~Truthy(a_state.error) /\ a_db
                    THEN <<[node |-> "update_db", call |-> "drivers.update", ok |-> x.update]>>
                    ELSE << >>)
    /\ a_pc' = create_workflow.update_db
    /\ a_trace' = Append(a_trace, "update_db")
    /\ UNCHANGED <<a_db, a_result, r_vars, e_vars, v_vars, l_vars, c_vars>>

AvRespond ==
    /\ a_pc = "respond"
    /\ \E x \in AvailabilityOutcomes :
          /\ x.database_enabled = a_db
          /\ a_state' = generate_response(a_state, x)
          /\ a_calls' = a_calls
                \o (IF ~Truthy(a_state.error)
                    THEN <<[node |-> "respond", call |-> "generate_content",
                            ok |-> x.reply.ok]>>
                    ELSE << >>)
    /\ a_pc' = create_workflow.respond
    /\ a_trace' = Append(a_trace, "respond")
    /\ UNCHANGED <<a_db, a_result, r_vars, e_vars, v_vars, l_vars, c_vars>>

\* save_interaction, lines 91-103: with the store enabled the driver record
\* is ensured once more, and the insert is made only when that went through.
AvLog ==
    /\ a_pc = "log_interaction"
    /\ \E x \in AvailabilityOutcomes, inserted \in BOOLEAN :
          /\ x.database_enabled = a_db
          /\ a_state' = log_interaction(a_state, x)
          /\ a_calls' = a_calls
                \o (IF a_db
                    THEN <<[node |-> "log_interaction", call |-> "drivers.select",
                            ok |-> x.ensure]>>
                    ELSE << >>)
                \o (IF a_db /\ x.ensure
                    THEN <<[node |-> "log_interaction", call |-> "driver_interactions.insert",
                            ok |-> inserted]>>
                    ELSE << >>)
    /\ a_pc' = create_workflow.log_interaction
    /\ a_trace' = Append(a_trace, "log_interaction")
    /\ UNCHANGED <<a_db, a_result, r_vars, e_vars, v_vars, l_vars, c_vars>>

\* APP.invoke has returned the final state; process_driver_message returns
\* its dict.
AvReturn ==
    /\ a_pc = "END"
    /\ a_result' = DriverResult(a_state, a_db)
    /\ a_pc' = "returned"
    /\ UNCHANGED <<a_db, a_state, a_trace, a_calls, r_vars, e_vars, v_vars, l_vars, c_vars>>

(***************************************************************************)
(* The load pipeline: one run of process_load_search, node by node.        *)
(***************************************************************************)
InitLoad ==
    /\ l_pc = create_load_finder_workflow.START
    /\ \E q \in LoadQueries : l_state = LoadInitialState(q)
    /\ l_trace = << >>
    /\ Idle({"load"})

LdParse ==
    /\ l_pc = "parse_query"
    /\ l_state' = parse_load_query(l_state)
    /\ l_pc' = create_load_finder_workflow.parse_query
    /\ l_trace' = Append(l_trace, "parse_query")
    /\ UNCHANGED <<r_vars, e_vars, v_vars, a_vars, c_vars>>

LdSearch ==
    /\ l_pc = "search_loads"
    /\ \E x \in LoadOutcomes : l_state' = search_available_loads(l_state, x)
    /\ l_pc' = create_load_finder_workflow.search_loads
    /\ l_trace' = Append(l_trace, "search_loads")
    /\ UNCHANGED <<r_vars, e_vars, v_vars, a_vars, c_vars>>

LdRank ==
    /\ l_pc = "rank_loads"
    /\ l_state' = rank_and_filter_loads(l_state)
    /\ l_pc' = create_load_finder_workflow.rank_loads
    /\ l_trace' = Append(l_trace, "rank_loads")
    /\ UNCHANGED <<r_vars, e_vars, v_vars, a_vars, c_vars>>

LdRespond ==
    /\ l_pc = "generate_response"
    /\ l_state' = generate_load_response(l_state)
    /\ l_pc' = create_load_finder_workflow.generate_response
    /\ l_trace' = Append(l_trace, "generate_response")
    /\ UNCHANGED <<r_vars, e_vars, v_vars, a_vars, c_vars>>

(***************************************************************************)
(* rank_and_filter_loads as a function of the candidates it is given: the  *)
(* load table, MOCK_LOADS in the source, is drawn here.  A run stands      *)
(* after search_loads, which leaves the candidates in the order of line    *)
(* 154, by match score and then urgent before the rest.  No rate and       *)
(* weight drawn give a score that lies half way between two hundredths,    *)
(* where round() goes by the binary value of the float.                    *)
(***************************************************************************)
InitRank ==
    /\ l_pc = create_load_finder_workflow.search_loads
    /\ l_trace = <<"parse_query", "search_loads">>
    /\ \E n \in 0..MaxLoads :
       \E table \in [1..n -> {WithKey([MOCK_LOADS[1] EXCEPT
                                          !.rate = rate, !.weight = weight,
                                          !.urgency = urgency],
                                      "match_score", score) :
                                 rate \in {"$0", "$25", "$45,000"},
                                 weight \in {"15 tons", "25 tons"},
                                 urgency \in {"urgent", "high", "normal"},
                                 score \in {0, 3}}] :
          l_state = [LoadInitialState("loads") EXCEPT
                        !.available_loads =
                            SortedDescending(table,
                                [i \in 1..n |->
                                    2 * table[i].match_score
                                    + (IF table[i].urgency = "urgent" THEN 1 ELSE 0)])]
    /\ Idle({"load"})

(***************************************************************************)
(* Load searches running at the same time, as the worker threads of the    *)
(* request layer run them: each run has its own state dict, all of them    *)
(* read the one list MOCK_LOADS of the module, and their nodes interleave  *)
(* in any order.  A node runs without a break (it makes no call outside).  *)
(***************************************************************************)
InitSearches ==
    /\ s_loads = MOCK_LOADS
    /\ s_pc = [r \in 1..MaxRuns |-> create_load_finder_workflow.START]
    /\ s_state \in [1..MaxRuns -> {LoadInitialState(q) :
                                      q \in {"from Delhi to Mumbai", "truck", "need"}}]
    /\ s_draw = [r \in 1..MaxRuns |-> None]
    /\ Idle({"searches"})

\* A step that writes the match score into the load of MOCK_LOADS itself, as
\* line 150 without .copy() would.
SearchStep_WritesShared ==
    /\ \E r \in DOMAIN s_pc :
          /\ s_pc[r] # "END"
          /\ \E random \in {[i \in DOMAIN MOCK_LOADS |-> b] : b \in BOOLEAN} :
                LET x == [loads |-> s_loads, random |-> random, now |-> "2025-09-14 19:15:00"]
                IN /\ s_state' = [s_state EXCEPT ![r] =
                         CASE s_pc[r] = "parse_query" -> parse_load_query(s_state[r])
                           [] s_pc[r] = "search_loads" -> search_available_loads(s_state[r], x)
                           [] s_pc[r] = "rank_loads" -> rank_and_filter_loads(s_state[r])
                           [] s_pc[r] = "generate_response" -> generate_load_response(s_state[r])]
                   /\ s_draw' = IF s_pc[r] = "search_loads"
                                THEN [s_draw EXCEPT ![r] = random] ELSE s_draw
                   /\ s_loads' = IF s_pc[r] = "search_loads"
                                 THEN [i \in DOMAIN s_loads |->
                                          WithKey(s_loads[i], "match_score",
                                                  match_score(s_state[r], s_loads[i]))]
                                 ELSE s_loads
          /\ s_pc' = [s_pc EXCEPT ![r] = create_load_finder_workflow[s_pc[r]]]
    /\ UNCHANGED <<d_table, d_pc, d_driver, d_issued, r_vars, e_vars, v_vars, a_vars, l_vars>>

\* One run executes its next node.  search_loads reads MOCK_LOADS as it is at
\* that moment and draws its random numbers; the nodes write their own state
\* and nothing else: lines 150 and 180 copy a load before they add a key.
SearchStep ==
    /\ \E r \in DOMAIN s_pc :
          /\ s_pc[r] # "END"
          /\ \E random \in {[i \in DOMAIN MOCK_LOADS |-> b] : b \in BOOLEAN} :
                LET x == [loads |-> s_loads, random |-> random, now |-> "2025-09-14 19:15:00"]
                IN /\ s_state' = [s_state EXCEPT ![r] =
                         CASE s_pc[r] = "parse_query" -> parse_load_query(s_state[r])
                           [] s_pc[r] = "search_loads" -> search_available_loads(s_state[r], x)
                           [] s_pc[r] = "rank_loads" -> rank_and_filter_loads(s_state[r])
                           [] s_pc[r] = "generate_response" -> generate_load_response(s_state[r])]
                   /\ s_draw' = IF s_pc[r] = "search_loads"
                                THEN [s_draw EXCEPT ![r] = random] ELSE s_draw
          /\ s_pc' = [s_pc EXCEPT ![r] = create_load_finder_workflow[s_pc[r]]]
    /\ UNCHANGED <<s_loads, d_table, d_pc, d_driver, d_issued,
                   r_vars, e_vars, v_vars, a_vars, l_vars>>

(***************************************************************************)
(* Availability runs under way at the same time with the store enabled, as *)
(* far as the table drivers goes.  A run calls ensure_driver_exists in      *)
(* analyze (line 111) and once more in log_interaction (save_interaction,  *)
(* line 94), whatever the first call returned.  A call is two requests to  *)
(* the store, the select of line 73 and, when it came back empty, the      *)
(* insert of line 74; requests of other runs can come between them.  A     *)
(* request can raise, and then the call returns False (line 77).  Whether  *)
(* the store takes a second row of a driver_id or raises on it is not in   *)
(* the source: both are outcomes of the insert.                            *)
(***************************************************************************)
InitEnsure ==
    /\ d_table \in {<< >>, <<"d1">>}
    /\ d_driver \in [1..MaxRuns -> Drivers]
    /\ d_pc = [r \in 1..MaxRuns |-> [node |-> "analyze", call |-> "select"]]
    /\ d_issued = << >>
    /\ Idle({"ensure"})

\* Line 73: the select of a run comes back, with the rows of its driver_id,
\* or raises.
EnsureSelect ==
    /\ \E r \in DOMAIN d_pc, ok \in BOOLEAN :
          /\ d_pc[r].call = "select"
          /\ d_pc' = [d_pc EXCEPT ![r] =
                IF ok /\ ~\E i \in DOMAIN d_table : d_table[i] = d_driver[r]
                THEN [node |-> d_pc[r].node, call |-> "insert"]
                ELSE IF d_pc[r].node = "analyze"
                THEN [node |-> "log_interaction", call |-> "select"]
                ELSE [node |-> "END", call |-> ""]]
    /\ UNCHANGED <<d_table, d_driver, d_issued, s_loads, s_pc, s_state, s_draw,
                   r_vars, e_vars, v_vars, a_vars, l_vars>>

\* Line 74: the insert of a run reaches the store, and adds a row or raises.
EnsureInsert ==
    /\ \E r \in DOMAIN d_pc, ok \in BOOLEAN :
          /\ d_pc[r].call = "insert"
          /\ d_issued' = Append(d_issued,
                [driver_id |-> d_driver[r],
                 present |-> \E i \in DOMAIN d_table : d_table[i] = d_driver[r],
                 ok |-> ok])
          /\ d_table' = IF ok THEN Append(d_table, d_driver[r]) ELSE d_table
          /\ d_pc' = [d_pc EXCEPT ![r] =
                IF d_pc[r].node = "analyze"
                THEN [node |-> "log_interaction", call |-> "select"]
                ELSE [node |-> "END", call |-> ""]]
    /\ UNCHANGED <<d_driver, s_loads, s_pc, s_state, s_draw,
                   r_vars, e_vars, v_vars, a_vars, l_vars>>

(***************************************************************************)
(* Specifications.                                                         *)
(***************************************************************************)
Next == Route
Spec == Init /\ [][Next]_vars

\* One run of one of the three pipelines.
InitPipelines == InitExpense \/ InitAvailability \/ InitLoad
NextPipelines ==
    \/ ExpParse \/ ExpValidate \/ ExpSave \/ ExpRespond \/ ExpReturn
    \/ AvAnalyze \/ AvUpdate \/ AvRespond \/ AvLog \/ AvReturn
    \/ LdParse \/ LdSearch \/ LdRank \/ LdRespond
SpecPipelines == InitPipelines /\ [][NextPipelines]_vars

SpecValidate == InitValidate /\ [][Validate]_vars

SpecRank == InitRank /\ [][LdRank]_vars

\* Load searches under way at the same time.
SpecSearches == InitSearches /\ [][SearchStep]_vars

\* Calls of ensure_driver_exists under way at the same time.
SpecEnsure == InitEnsure /\ [][EnsureSelect \/ EnsureInsert]_vars

(***************************************************************************)
(* Properties of the router, read on the state a call leaves behind.       *)
(***************************************************************************)
RouterDone == r_pc = "returned"

a_score == availability_score(lower(r_message))
l_score == load_score(lower(r_message))
e_score == expense_score(lower(r_message))
NoStrictWinner ==
    /\ ~(a_score > l_score /\ a_score > e_score)
    /\ ~(l_score > a_score /\ l_score > e_score)
    /\ ~(e_score > a_score /\ e_score > l_score)
HasIntentWord ==
    \E word \in {"find", "search", "looking", "need"} : Contains(lower(r_message), word)
HeuristicLabel == IF HasIntentWord THEN "load_search" ELSE "general"
Labels == {"availability", "load_search", "expense_tracking", "general"}
EnvelopeKeys == {"type", "status", "response", "routed_to", "driver_id", "timestamp"}

\* C1: route_message_to_agent never lets an exception leave it; whatever the
\* intent, and whether the availability import works, fails with ImportError
\* or fails otherwise, it returns a dict that has the keys type, status,
\* response, routed_to, driver_id and timestamp.
C1_AlwaysAnEnvelope ==
    RouterDone => /\ r_raised = FALSE
                  /\ EnvelopeKeys \subseteq DOMAIN r_envelope

\* A call that met something other than ImportError at the import, the path
\* on which only the handler of line 116 stands between it and the caller.
C1_Witness ==
    /\ RouterDone
    /\ r_fault.import = "ValueError"
    /\ r_envelope.type = "error"
    /\ EnvelopeKeys \subseteq DOMAIN r_envelope

\* C2: a category whose keyword score is strictly above both other scores
\* is the label classify_message_intent returns.
C2_StrictWinnerIsLabel ==
    RouterDone =>
        /\ (a_score > l_score /\ a_score > e_score) => r_intent = "availability"
        /\ (l_score > a_score /\ l_score > e_score) => r_intent = "load_search"
        /\ (e_score > a_score /\ e_score > l_score) => r_intent = "expense_tracking"

\* An expense message that also scores for loads, the expense score on top.
C2_Witness ==
    /\ RouterDone
    /\ l_score > 0
    /\ e_score > l_score /\ e_score > a_score
    /\ r_intent = "expense_tracking"

\* C3, as the specification states it: whenever no category is strictly
\* highest, the context heuristic alone decides the label.
C3_TieGoesToHeuristic ==
    RouterDone => (NoStrictWinner => r_intent = HeuristicLabel)

\* C3, as the code has it: whenever no category is strictly highest, the
\* label is availability if the availability score is positive, and only
\* with an availability score of zero does the context heuristic decide.
C3_TieGoesToAvailabilityFirst ==
    RouterDone =>
        (NoStrictWinner =>
            r_intent = IF a_score > 0 THEN "availability" ELSE HeuristicLabel)

\* A tie for the top that includes availability, labelled availability.
C3_Witness ==
    /\ RouterDone
    /\ NoStrictWinner
    /\ a_score > 0
    /\ r_intent = "availability"

\* C4: with all three scores zero the heuristic decides (a context word
\* gives load_search, none gives general), the empty message is general,
\* and the label is always one of the four.
C4_ZeroScoresAndLabels ==
    RouterDone =>
        /\ r_intent \in Labels
        /\ (a_score = 0 /\ l_score = 0 /\ e_score = 0) => r_intent = HeuristicLabel
        /\ r_message = "" => r_intent = "general"

\* A message without any keyword but with a context word, sent to the loads.
C4_Witness ==
    /\ RouterDone
    /\ a_score = 0 /\ l_score = 0 /\ e_score = 0
    /\ HasIntentWord
    /\ r_intent = "load_search"

\* C6: an exception other than ImportError raised while the pipeline is
\* brought in gives the error envelope: type error, the exception's text
\* under error, the apology as response, routed_to the classified intent.
C6_ErrorEnvelope ==
    (RouterDone /\ r_fault.import \notin {"ok", "ImportError"}) =>
        /\ r_raised = FALSE
        /\ r_envelope.type = "error"
        /\ r_envelope.status = "failed"
        /\ r_envelope.error = r_fault.text
        /\ r_envelope.response = ApologyReply
        /\ r_envelope.routed_to = r_intent

\* The missing API key stopping the import of availability_agent.
C6_Witness ==
    /\ RouterDone
    /\ r_fault = [import |-> "ValueError",
                  text |-> "GOOGLE_API_KEY not found in environment variables."]
    /\ r_envelope.error = r_fault.text

\* C7: in every envelope routed_to is the label classify_message_intent
\* gives the message, and driver_id is the sender's id as passed in.
C7_RoutedToAndDriver ==
    RouterDone =>
        /\ r_envelope.routed_to = classify_message_intent(r_message)
        /\ r_envelope.driver_id = r_driver

\* An envelope of the general branch and one of a failure both carry them;
\* the state named here is the general one.
C7_Witness ==
    /\ RouterDone
    /\ r_envelope.type = "general"
    /\ r_envelope.routed_to = "general"
    /\ r_envelope.driver_id = "driver_123"

(***************************************************************************)
(* Properties of validate_expense_data and calculate_confidence_score,     *)
(* read on the state one call of validate_expense_data leaves behind.      *)
(***************************************************************************)
StatusOf(amount, expense_type, location) ==
    IF amount <= 0 THEN "failed"
    ELSE IF \/ amount > Rupees(max_amount(expense_type))
            \/ expense_type = "fuel" /\ amount < Rupees(100)
            \/ expense_type = "toll" /\ amount > Rupees(2000)
            \/ location = "" /\ expense_type \in {"fuel", "toll", "parking"}
    THEN "warning"
    ELSE "passed"

\* C8: validation_status is a function of (amount, expense_type, location):
\* failed exactly when amount <= 0; otherwise warning exactly when the amount
\* is over the category's max_amount, or fuel under 100, or toll over 2000,
\* or the location is empty for fuel, toll or parking; otherwise passed.  A
\* fuel amount of 60000, over the ceiling of 50000, gives warning.
C8_StatusFunction ==
    v_done =>
        /\ v_state.validation_status
              = StatusOf(v_state.amount, v_state.expense_type, v_state.location)
        /\ (v_state.expense_type = "fuel" /\ v_state.amount = Rupees(60000)
               /\ v_state.location # "")
              => /\ v_state.validation_status = "warning"
                 /\ v_state.extracted_data.validation_errors = << >>

\* The ceiling breach alone: fuel, 60000, at a known place.
C8_Witness ==
    /\ v_done
    /\ v_state.expense_type = "fuel"
    /\ v_state.amount = Rupees(60000)
    /\ v_state.location = "Delhi"
    /\ v_state.validation_status = "warning"

Points(present, weight) == IF present THEN weight ELSE 0

\* The states that differ from state in one item of the five, absent in
\* state and present in them.
OneMorePresent(state) ==
    (IF state.amount > 0 THEN {} ELSE {[state EXCEPT !.amount = Rupees(2500)]})
    \cup (IF state.expense_type # "other" THEN {} ELSE {[state EXCEPT !.expense_type = "fuel"]})
    \cup (IF state.receipt_number # "" THEN {}
          ELSE {[state EXCEPT !.receipt_number = "EXP10000"]})
    \cup (IF state.location # "" THEN {} ELSE {[state EXCEPT !.location = "Delhi"]})
    \cup (IF state.vendor_name # "" THEN {} ELSE {[state EXCEPT !.vendor_name = "Indian Oil"]})

\* C9: the confidence score is 40 for an amount above zero, plus 20 for a
\* category other than other, plus 15 for a receipt number, plus 15 for a
\* location, plus 10 for a vendor; it lies in 0..100 and does not go down
\* when one more of the five becomes present and the rest stays.
C9_ConfidenceScore ==
    v_done =>
        LET score == v_state.extracted_data.confidence_score
        IN /\ score = Points(v_state.amount > 0, 40)
                      + Points(v_state.expense_type # "other", 20)
                      + Points(v_state.receipt_number # "", 15)
                      + Points(v_state.location # "", 15)
                      + Points(v_state.vendor_name # "", 10)
           /\ score \in 0..100
           /\ \A more \in OneMorePresent(v_state) :
                 /\ calculate_confidence_score(more) >= score
                 /\ calculate_confidence_score(more) \in 0..100

\* A state with the amount and the category only, which has items to gain.
C9_Witness ==
    /\ v_done
    /\ v_state.extracted_data.confidence_score = 60
    /\ v_state.amount > 0
    /\ v_state.location = "" /\ v_state.receipt_number = "" /\ v_state.vendor_name = ""

(***************************************************************************)
(* Properties of the expense pipeline.                                     *)
(***************************************************************************)
\* C10: a run whose validation status is failed leaves no expense record;
\* every record the save stage builds and saves is of a run that passed or
\* passed with a warning.
C10_NoRecordOfFailedRun ==
    \A i \in DOMAIN e_records : e_records[i].validation_status \in {"passed", "warning"}

ExpenseReturned == e_pc = "returned"

\* C11: process_expense_message returns status failed exactly when the final
\* validation_status is failed, and success for passed and warning; the
\* response of a failed run is the failure message, which lists every
\* validation error and holds no line of the success summary.
C11_FailedIffValidationFailed ==
    ExpenseReturned =>
        /\ e_result.validation_status = e_state.validation_status
        /\ e_result.validation_status \in {"passed", "warning", "failed"}
        /\ e_result.status = "failed" <=> e_result.validation_status = "failed"
        /\ e_result.status = "success" <=> e_result.validation_status \in {"passed", "warning"}
        /\ e_result.response = e_state.response_message
        /\ e_result.status = "failed" =>
              /\ Contains(e_result.response, "Expense Recording Failed")
              /\ Contains(e_result.response,
                          "Issues found: "
                          \o Join(e_state.extracted_data.validation_errors, ", ") \o "\n")
              /\ e_state.extracted_data.validation_errors # << >>
              /\ \A part \in {"Expense Recorded Successfully", "**Type:**", "**Amount:**",
                               "**Receipt #:**", "**Time:**", "**Confidence:**",
                               "**Notices:**", "Expense added to your trip record"} :
                    ~Contains(e_result.response, part)

\* A message with no amount in it, answered with the failure message.
C11_Witness ==
    /\ ExpenseReturned
    /\ e_state.message = "hello"
    /\ e_result.status = "failed"
    /\ Contains(e_result.response, "Issues found: Amount not found or invalid\n")

(***************************************************************************)
(* Properties of the three pipelines as graphs of stages.                  *)
(***************************************************************************)
Range(seq) == {seq[i] : i \in DOMAIN seq}

\* A run at pc with the stages of trace behind it follows order: trace is the
\* start of order, pc is the stage that comes next in order, and pc is END
\* (or the call has returned) exactly when all of order has run.
FollowsOrder(pc, trace, order) ==
    /\ Len(trace) <= Len(order)
    /\ trace = SubSeq(order, 1, Len(trace))
    /\ pc = IF Len(trace) < Len(order) THEN order[Len(trace) + 1] ELSE pc
    /\ pc \in {"END", "returned"} <=> trace = order

\* C12: a run of a pipeline executes its stages once each, one after the
\* other in the fixed order (availability: analyze, update_db, respond,
\* log_interaction; load search: parse_query, search_loads, rank_loads,
\* generate_response; expense: parse, validate, save, respond), and ends
\* after the last.
C12_StagesOnceInOrder ==
    /\ a_pc # "idle" =>
          FollowsOrder(a_pc, a_trace, <<"analyze", "update_db", "respond", "log_interaction">>)
    /\ l_pc # "idle" =>
          FollowsOrder(l_pc, l_trace,
                       <<"parse_query", "search_loads", "rank_loads", "generate_response">>)
    /\ e_pc # "idle" =>
          FollowsOrder(e_pc, e_trace, <<"parse", "validate", "save", "respond">>)

\* An availability run that has ended, all four stages behind it.
C12_Witness ==
    /\ a_pc = "END"
    /\ a_trace = <<"analyze", "update_db", "respond", "log_interaction">>
    /\ a_state.response_message # ""

\* C16: in a run of any of the three pipelines response_message is the empty
\* string until the stage that composes the reply has run (respond, or
\* generate_response in the load pipeline); only that stage writes it; no
\* stage that runs after it, log_interaction of the availability pipeline
\* being the one there is, changes it.
C16_ReplyWrittenByReplyStage ==
    [][/\ "respond" \notin Range(a_trace) => a_state.response_message = ""
       /\ "generate_response" \notin Range(l_trace) => l_state.response_message = ""
       /\ "respond" \notin Range(e_trace) => e_state.response_message = ""
       /\ a_state'.response_message # a_state.response_message => a_pc = "respond"
       /\ l_state'.response_message # l_state.response_message => l_pc = "generate_response"
       /\ e_state'.response_message # e_state.response_message => e_pc = "respond"
       /\ a_pc = "log_interaction" =>
             a_state'.response_message = a_state.response_message]_vars

\* An availability run past log_interaction with the reply respond wrote.
C16_Witness ==
    /\ a_pc = "END"
    /\ a_trace[Len(a_trace)] = "log_interaction"
    /\ a_state.response_message = "Theek hai, noted."

\* The fields of the record state named in fields are the same in after.
SameFields(state, after, fields) == \A f \in fields : after[f] = state[f]

\* C17: in a run of any pipeline the message as it came (original_message,
\* query, message) and the sender's id are the same after every stage, so
\* they are the inputs throughout; and a stage that runs after the parsing
\* stage changes none of the fields that stage extracted.  In the expense
\* pipeline validate, save and respond leave amount, expense_type, location,
\* receipt_number, vendor_name and timestamp alone, and save leaves the
\* whole state alone.
C17_InputsAndParsedFieldsKept ==
    [][/\ SameFields(a_state, a_state', {"original_message", "driver_id"})
       /\ SameFields(l_state, l_state', {"query"})
       /\ SameFields(e_state, e_state', {"message", "driver_id"})
       /\ e_pc \in {"validate", "save", "respond"} =>
             SameFields(e_state, e_state',
                        {"amount", "expense_type", "location", "receipt_number",
                         "vendor_name", "timestamp"})
       /\ e_pc = "save" => e_state' = e_state
       /\ a_pc \in {"update_db", "respond", "log_interaction"} =>
             SameFields(a_state, a_state',
                        {"status", "location", "vehicle_type", "confidence", "reasoning"})
       /\ l_pc \in {"search_loads", "rank_loads", "generate_response"} =>
             SameFields(l_state, l_state',
                        {"source_location", "destination_location", "vehicle_type",
                         "load_capacity"})]_vars

\* An expense run at its end with what parse extracted still in the state.
C17_Witness ==
    /\ e_pc = "END"
    /\ e_trace = <<"parse", "validate", "save", "respond">>
    /\ e_state.message = "Fuel expense 2500 at Delhi"
    /\ e_state.amount = Rupees(2500)
    /\ e_state.expense_type = "fuel"
    /\ e_state.location = "Delhi"
    /\ e_state.receipt_number # ""
    /\ e_state.timestamp # ""

(***************************************************************************)
(* Properties of the availability pipeline.                                *)
(***************************************************************************)
AvailabilityReturned == a_pc = "returned"

\* What the node at a_pc returns for the state of the run when the store and
\* the model do x.
NodeReturn(x) ==
    IF a_pc = "analyze" THEN analyze_availability(a_state, x)
    ELSE IF a_pc = "update_db" THEN update_driver_database(a_state, x)
    ELSE IF a_pc = "respond" THEN generate_response(a_state, x)
    ELSE log_interaction(a_state, x)

\* The calls of a_calls made by the node.
CallsOf(node) == SelectSeq(a_calls, LAMBDA c : c.node = node)

DegradedReply == "Apka message mil gaya hai. System mein kuch issue hai, jald theek kar denge."

\* C13: whichever of the external calls fail (the check and insert of the
\* driver record, the analysis by the model, the update of the driver's
\* status, the reply by the model, the logging of the interaction), every
\* stage returns, so the run goes on until process_driver_message has
\* returned, and response_sent of its result is what the respond stage
\* wrote: the degraded message when the state carries an error, else the
\* model's text cleaned of * and ", else the template of the status.
C13_EveryFailureAnswered ==
    /\ a_pc \in {"analyze", "update_db", "respond", "log_interaction"} =>
          \A x \in AvailabilityOutcomes :
             x.database_enabled = a_db =>
                /\ DOMAIN NodeReturn(x) = DOMAIN a_state
                /\ NodeReturn(x).driver_id = a_state.driver_id
    /\ a_pc \in {"analyze", "update_db", "respond", "log_interaction", "END", "returned",
                 "idle"}
    /\ "respond" \notin Range(a_trace) => a_state.response_message = ""
    /\ AvailabilityReturned =>
          /\ a_trace = <<"analyze", "update_db", "respond", "log_interaction">>
          /\ a_result.response_sent = a_state.response_message
          /\ a_result.response_sent =
                IF CallsOf("respond") = << >> THEN DegradedReply
                ELSE IF CallsOf("respond")[1].ok THEN "Theek hai, noted."
                ELSE IF a_result.driver_status = "available"
                THEN "Perfect! Aap "
                     \o (IF a_result.location = "" THEN "" ELSE a_result.location \o " mein ")
                     \o "available hain. Load dhundte hain."
                ELSE IF a_result.driver_status = "busy"
                THEN "Samjha Bhai. Safe driving! Trip complete hone par update karna."
                ELSE IF a_result.driver_status = "offline"
                THEN "Theek hai. Rest karo, available hone par message karna."
                ELSE "Message samjh gaya. Kuch aur help chahiye?"
          /\ CallsOf("respond") = << >> <=> a_result.error_details # None

\* A run in which the analysis, the reply and the logging all failed and the
\* driver was answered from the template.
C13_Witness ==
    /\ AvailabilityReturned
    /\ \E i \in DOMAIN a_calls :
          a_calls[i] = [node |-> "analyze", call |-> "generate_content", ok |-> FALSE]
    /\ \E i \in DOMAIN a_calls :
          a_calls[i] = [node |-> "respond", call |-> "generate_content", ok |-> FALSE]
    /\ \E i \in DOMAIN a_calls :
          a_calls[i].node = "log_interaction" /\ ~a_calls[i].ok
    /\ a_result.response_sent
          = "Samjha Bhai. Safe driving! Trip complete hone par update karna."

\* The run has just left analyze, where the model was asked and failed.
AnalysisFellBack ==
    /\ a_trace = <<"analyze">>
    /\ a_calls # << >>
    /\ a_calls[Len(a_calls)] = [node |-> "analyze", call |-> "generate_content", ok |-> FALSE]

\* C14: when the driver record exists and the call to the model fails in
\* analyze_availability, the stage leaves a status that is available, busy
\* or offline (never unknown), a location that is empty or a supported
\* city, a vehicle_type that is empty or a supported vehicle, the confidence
\* 0.8, a reasoning that names the fallback logic, and no error.
C14_FallbackAnalysis ==
    AnalysisFellBack =>
        /\ a_state.status \in {"available", "busy", "offline"}
        /\ a_state.location \in {""} \cup Range(SUPPORTED_CITIES)
        /\ a_state.vehicle_type \in {""} \cup Range(SUPPORTED_VEHICLES)
        /\ a_state.confidence = 80
        /\ a_state.reasoning = "Fallback logic detected '" \o a_state.status \o "'"
        /\ a_state.error = None
        /\ a_state.response_message = ""

\* A message with none of the status words, read by the fallback, with a
\* city in it.
C14_Witness ==
    /\ AnalysisFellBack
    /\ a_state.original_message = "hello Delhi mein"
    /\ a_state.status = "available"
    /\ a_state.location = "Delhi"
    /\ a_state.confidence = 80

\* The store has failed the run: the driver record could not be ensured in
\* analyze, or the update of the status failed in update_db.
StoreFailed ==
    \E i \in DOMAIN a_calls :
       \/ a_calls[i] = [node |-> "analyze", call |-> "drivers.select", ok |-> FALSE]
       \/ a_calls[i] = [node |-> "update_db", call |-> "drivers.update", ok |-> FALSE]

\* C15: once the update of the driver's status has failed, or the driver
\* record could not be ensured, the error field is set and stays set to the
\* end of the run; the respond stage writes the degraded acknowledgement and
\* does not call the model; the run goes on through log_interaction and
\* returns with the error.
C15_StoreFailureDegrades ==
    StoreFailed =>
        /\ a_state.error \in {"Database update failed",
                              "Failed to create record for " \o a_state.driver_id}
        /\ "respond" \in Range(a_trace) =>
              /\ a_state.response_message = DegradedReply
              /\ CallsOf("respond") = << >>
        /\ a_pc \in {"END", "returned"} =>
              a_trace = <<"analyze", "update_db", "respond", "log_interaction">>
        /\ AvailabilityReturned =>
              /\ a_result.error_details = a_state.error
              /\ a_result.analysis_status = "failure"
              /\ a_result.response_sent = DegradedReply

\* A run that has returned after the update of the status failed.
C15_Witness ==
    /\ AvailabilityReturned
    /\ StoreFailed
    /\ a_state.error = "Database update failed"
    /\ a_result.response_sent = DegradedReply
    /\ \E i \in DOMAIN a_calls : a_calls[i].node = "log_interaction"

(***************************************************************************)
(* Properties of the load pipeline.                                        *)
(***************************************************************************)
RankDone == l_pc = "generate_response"

RateOf(load) == ParseInt(remove(remove(load.rate, "$"), ","))
TonsOf(load) == ParseInt(WordsFrom(load.weight, 1)[1])

\* C18: of two candidates that search_available_loads kept with the same
\* match score and the same raw profitability rate / (weight * 100), one
\* urgent and one normal, the urgent one stands before the normal one in
\* matched_loads after rank_and_filter_loads, also when the rounding to two
\* decimals leaves both with the same final score.
C18_UrgentBeforeNormal ==
    RankDone =>
        \A i, j \in DOMAIN l_state.matched_loads :
           LET first == l_state.matched_loads[i]
               second == l_state.matched_loads[j]
           IN (/\ first.urgency = "normal"
               /\ second.urgency = "urgent"
               /\ first.match_score = second.match_score
               /\ RateOf(first) * TonsOf(second) = RateOf(second) * TonsOf(first))
              => j < i

\* Rs 25 for 25 tons twice, urgent and normal: 0.013 and 0.01 both round to
\* 0.01, and the urgent load is the first.
C18_Witness ==
    /\ RankDone
    /\ Len(l_state.matched_loads) = 2
    /\ l_state.matched_loads[1].urgency = "urgent"
    /\ l_state.matched_loads[2].urgency = "normal"
    /\ l_state.matched_loads[1].match_score = l_state.matched_loads[2].match_score
    /\ l_state.matched_loads[1].rate = "$25" /\ l_state.matched_loads[2].rate = "$25"
    /\ l_state.matched_loads[1].weight = "25 tons"
    /\ l_state.matched_loads[2].weight = "25 tons"
    /\ l_state.matched_loads[1].profitability_score = 1
    /\ l_state.matched_loads[2].profitability_score = 1

\* 1 for TRUE, 0 for FALSE.
Bracket(condition) == IF condition THEN 1 ELSE 0

\* s is part of text: as the strings stand, or both in lower case.
PartOf(s, text, folded) ==
    IF folded THEN Contains(lower(text), lower(s)) ELSE Contains(text, s)

\* 3 for the requested source, 3 for the requested destination, 2 for the
\* requested vehicle type.
ScoreOf(state, load, folded) ==
    3 * Bracket(state.source_location # ""
                /\ PartOf(state.source_location, load.source, folded))
    + 3 * Bracket(state.destination_location # ""
                  /\ PartOf(state.destination_location, load.destination, folded))
    + 2 * Bracket(state.vehicle_type # "any" /\ state.vehicle_type = load.vehicle_type)

\* The load of MOCK_LOADS with this id is among the loads.
Holds(loads, load_id) == \E k \in DOMAIN loads : loads[k].load_id = load_id

\* What C19 says of search_available_loads, run on the state of the load
\* pipeline before the search and seen in the state after it.
ScoresAndCandidates(folded) ==
    /\ l_pc = "search_loads" =>
          \A x \in LoadOutcomes :
             LET found == search_available_loads(l_state, x).available_loads
             IN /\ \A k \in DOMAIN found :
                      found[k].match_score = ScoreOf(l_state, found[k], folded)
                /\ \A i \in DOMAIN MOCK_LOADS :
                      Holds(found, MOCK_LOADS[i].load_id)
                         <=> (ScoreOf(l_state, MOCK_LOADS[i], folded) > 0 \/ x.random[i])
    /\ l_pc = "rank_loads" =>
          /\ \A k \in DOMAIN l_state.available_loads :
                l_state.available_loads[k].match_score
                   = ScoreOf(l_state, l_state.available_loads[k], folded)
          /\ \A i \in DOMAIN MOCK_LOADS :
                ScoreOf(l_state, MOCK_LOADS[i], folded) > 0
                   => Holds(l_state.available_loads, MOCK_LOADS[i].load_id)

\* C19, as the specification states it: search_available_loads gives every
\* load the match score 3 for the requested source, when there is one,
\* being a substring of the load's source, plus 3 for the requested
\* destination, when there is one, being a substring of the load's
\* destination, plus 2 for a requested vehicle type that is not "any" and is
\* the load's; a load with a score above zero is a candidate, and a load
\* with the score zero is one only when the random draw takes it.
C19_ScoreBySubstring == ScoresAndCandidates(FALSE)

\* C19, as the code has it: the same, the requested place and the load's
\* place both put in lower case before the one is looked for in the other,
\* so that the requested "Elhi" scores for a load to "Delhi".
C19_ScoreByLoweredSubstring == ScoresAndCandidates(TRUE)

\* A search from Pune to elhi: parse_load_query asks for the destination
\* "Elhi", and LD005, from Pune to Delhi, has 3 for the source and 3 for
\* the destination.
C19_Witness ==
    /\ l_pc = "rank_loads"
    /\ l_state.query = "from Pune to elhi"
    /\ l_state.destination_location = "Elhi"
    /\ l_state.available_loads[1].load_id = "LD005"
    /\ l_state.available_loads[1].match_score = 6
    /\ \E k \in DOMAIN l_state.available_loads :
          l_state.available_loads[k].match_score = 0

\* The ids of the loads, each as often as it occurs.
IdsOf(loads) == [id \in {loads[k].load_id : k \in DOMAIN loads} |->
                    Cardinality({k \in DOMAIN loads : loads[k].load_id = id})]

\* keys[1] >= keys[2] >= ...
NonIncreasing(keys) == \A i, j \in DOMAIN keys : i < j => keys[i] >= keys[j]

\* C20: in a load search available_loads holds at most 5 candidates, those
\* of the highest match scores; matched_loads holds the same loads in the
\* order of their profitability_score, highest first; the reply shows the
\* first min(3, n) of the n matched loads and no other, tells of n - 3 more
\* loads exactly when n > 3, and is the no-loads message when n = 0.
C20_TopFiveRankedTopThreeShown ==
    /\ l_pc = "search_loads" =>
          \A x \in LoadOutcomes :
             LET found == search_available_loads(l_state, x).available_loads
                 taken == {i \in DOMAIN MOCK_LOADS :
                              match_score(l_state, MOCK_LOADS[i]) > 0 \/ x.random[i]}
             IN /\ Len(found) = IF Cardinality(taken) < 5 THEN Cardinality(taken) ELSE 5
                /\ NonIncreasing([k \in DOMAIN found |-> found[k].match_score])
                /\ \A i \in taken :
                      Holds(found, MOCK_LOADS[i].load_id)
                      \/ \A k \in DOMAIN found :
                            found[k].match_score >= match_score(l_state, MOCK_LOADS[i])
    /\ "search_loads" \in Range(l_trace) => Len(l_state.available_loads) <= 5
    /\ "rank_loads" \in Range(l_trace) =>
          /\ Len(l_state.matched_loads) = Len(l_state.available_loads)
          /\ IdsOf(l_state.matched_loads) = IdsOf(l_state.available_loads)
          /\ \A k \in DOMAIN l_state.matched_loads :
                \E a \in DOMAIN l_state.available_loads :
                   l_state.matched_loads[k]
                      = WithKey(l_state.available_loads[a], "profitability_score",
                                l_state.matched_loads[k].profitability_score)
          /\ NonIncreasing([k \in DOMAIN l_state.matched_loads |->
                               l_state.matched_loads[k].profitability_score])
    /\ l_pc = "END" =>
          LET n == Len(l_state.matched_loads)
              reply == l_state.response_message
          IN /\ \A k \in 1..n :
                   (k <= 3) <=> Contains(reply, "**Company:** "
                                                 \o l_state.matched_loads[k].company \o "\n")
             /\ \A k \in 1..6 :
                   (k <= n /\ k <= 3) <=> Contains(reply, "**Load #" \o IntToStr(k) \o "**")
             /\ \A k \in 1..3 :
                   k <= n => Contains(reply,
                                "**Load #" \o IntToStr(k) \o "**\n(pin) **Route:** "
                                \o l_state.matched_loads[k].source \o " -> "
                                \o l_state.matched_loads[k].destination \o "\n")
             /\ n > 3 <=> Contains(reply, "more loads")
             /\ n > 3 => Contains(reply, "Found " \o IntToStr(n - 3) \o " more loads.")
             /\ n = 0 <=> reply = "(x) No loads found matching your criteria. "
                                  \o "Try different locations or vehicle types."

\* A search that matched all five loads: three shown, two more told of.
C20_Witness ==
    /\ l_pc = "END"
    /\ Len(l_state.matched_loads) = 5
    /\ Contains(l_state.response_message, "**Load #3**")
    /\ Contains(l_state.response_message, "Found 2 more loads.")
    /\ l_state.matched_loads[1].profitability_score
          > l_state.matched_loads[5].profitability_score

\* C21: the amount parsed from "$1,500" (the rupee sign before the number)
\* and from "1500 rupees" is the same 1500.0; the amount is that of the first
\* pattern, in list order, that matches, its separators removed; the amount
\* is 0.0 only when no pattern matches.
C21_PrefixedAndSuffixedAgree ==
    "parse" \in Range(e_trace) =>
        LET found == amount_patterns(lower(e_state.message))
        IN /\ e_state.message \in {"$1,500", "1500 rupees"} => e_state.amount = Rupees(1500)
           /\ \A k \in DOMAIN found :
                 found[k].ok /\ (\A j \in 1..(k - 1) : ~found[j].ok)
                     => e_state.amount = AmountValue(found[k].group)
           /\ e_state.amount = 0 => \A k \in DOMAIN found : ~found[k].ok

\* The number of the keywords of the k-th category that occur in text.
Occurring(k, text) ==
    Cardinality({i \in DOMAIN keywords(Categories[k]) :
                    Contains(text, keywords(Categories[k])[i])})

\* C24: after the parse stage expense_type is the category with the most of
\* its keywords occurring in the lower-cased message, the earliest of the
\* table among those that tie; it is "other" exactly when no keyword of any
\* category occurs; so it is always a key of the table and has a ceiling.
C24_CategoryOfMostKeywords ==
    "parse" \in Range(e_trace) =>
        LET text == lower(e_state.message)
        IN /\ \E k \in DOMAIN Categories : Categories[k] = e_state.expense_type
           /\ e_state.expense_type = "other"
                 <=> \A k \in DOMAIN Categories : Occurring(k, text) = 0
           /\ \A k \in DOMAIN Categories :
                 Categories[k] = e_state.expense_type /\ e_state.expense_type # "other" =>
                    /\ \A j \in DOMAIN Categories : Occurring(j, text) <= Occurring(k, text)
                    /\ \A j \in 1..(k - 1) : Occurring(j, text) < Occurring(k, text)
           /\ max_amount(e_state.expense_type) \in 1000..50000

\* Fuel and toll tie at one keyword each, toll named first in the message:
\* the category is fuel, the earlier of the table.
C24_Witness ==
    /\ "parse" \in Range(e_trace)
    /\ e_state.message = "toll 3,000.50 rupees fuel 50"
    /\ Occurring(1, lower(e_state.message)) = 1
    /\ Occurring(2, lower(e_state.message)) = 1
    /\ e_state.expense_type = "fuel"

\* EXP and five digits
Generated(receipt_number) ==
    /\ Len(receipt_number) = 8
    /\ Sub(receipt_number, 1, 3) = "EXP"
    /\ AllDigits(receipt_number, 4, 8)

\* C28: after the parse stage an amount above 0 comes with a receipt number,
\* one read from the message or one generated as EXP and five digits; with
\* amount 0 no receipt number is generated; so a run whose validation status
\* is passed or warning has a confidence score of at least 55.
C28_AmountBringsReceipt ==
    "parse" \in Range(e_trace) =>
        /\ e_state.amount > 0 =>
              /\ e_state.receipt_number # ""
              /\ \/ Contains(lower(e_state.message), e_state.receipt_number)
                 \/ Generated(e_state.receipt_number)
        /\ e_state.amount = 0 =>
              /\ ~Generated(e_state.receipt_number)
              /\ Contains(lower(e_state.message), e_state.receipt_number)
        /\ "validate" \in Range(e_trace)
           /\ e_state.validation_status \in {"passed", "warning"} =>
              e_state.extracted_data.confidence_score >= 55
        /\ ExpenseReturned /\ e_result.validation_status \in {"passed", "warning"} =>
              e_result.confidence_score >= 55

\* A run that passed with nothing but an amount and the generated receipt
\* number: its confidence score is 55.
C28_Witness ==
    /\ ExpenseReturned
    /\ e_state.message = "1500 rupees"
    /\ e_state.amount = Rupees(1500)
    /\ Generated(e_state.receipt_number)
    /\ e_result.validation_status = "passed"
    /\ e_result.confidence_score = 55

\* C25: every profitability score that the reply of a load search prints
\* as "Score: x/10" lies between 0 and 10.
C25_PrintedScoreWithinTen ==
    l_pc = "END" =>
        \A k \in DOMAIN l_state.matched_loads :
            Contains(l_state.response_message,
                     "**Score:** " \o FloatStr(l_state.matched_loads[k].profitability_score)
                     \o "/10\n")
                => /\ l_state.matched_loads[k].profitability_score >= 0
                   /\ l_state.matched_loads[k].profitability_score <= 10 * 100

\* Some word of the set occurs in the lower-cased message of the run.
Says(words) == \E w \in words : Contains(lower(a_state.original_message), w)

\* C23: the fallback of the analysis tries the word lists in the order busy,
\* offline, available, and the first list with a word in the message gives
\* the status; with no word of any list the status is busy when the message
\* holds load, trip or delivery, and available otherwise.  "I am busy with a
\* trip" is busy.
C23_FirstListDecides ==
    AnalysisFellBack =>
        LET busy == Says({"busy", "trip pe", "load leke", "ja raha"})
            offline == Says({"rest", "break", "offline", "kal subah"})
            available == Says({"free", "available", "khali", "complete"})
        IN /\ busy => a_state.status = "busy"
           /\ ~busy /\ offline => a_state.status = "offline"
           /\ ~busy /\ ~offline /\ available => a_state.status = "available"
           /\ ~busy /\ ~offline /\ ~available /\ Says({"load", "trip", "delivery"})
                 => a_state.status = "busy"
           /\ ~busy /\ ~offline /\ ~available /\ ~Says({"load", "trip", "delivery"})
                 => a_state.status = "available"
           /\ a_state.original_message = "I am busy with a trip" => a_state.status = "busy"

\* A message with a busy word and an available word: busy.
C23_Witness ==
    /\ AnalysisFellBack
    /\ a_state.original_message = "I am busy with a trip Main free hun"
    /\ Says({"busy"}) /\ Says({"free"})
    /\ a_state.status = "busy"

\* The check of the driver record failed in analyze.
CreationFailed ==
    \E i \in DOMAIN a_calls :
       a_calls[i] = [node |-> "analyze", call |-> "drivers.select", ok |-> FALSE]

\* C26: no stage of the availability pipeline is skipped or run again; with
\* the store enabled the update_db stage tries the update of the driver's
\* status exactly once, whatever analyze left; and no external call that
\* failed is made a second time in the run.
C26_UpdateOnceWhateverAnalyzeLeft ==
    /\ a_pc # "idle" =>
          FollowsOrder(a_pc, a_trace, <<"analyze", "update_db", "respond", "log_interaction">>)
    /\ a_db /\ "update_db" \in Range(a_trace) => Len(CallsOf("update_db")) = 1
    /\ \A i, j \in DOMAIN a_calls :
          i < j /\ ~a_calls[i].ok => a_calls[j].call # a_calls[i].call

\* C26, amended: no stage of the availability pipeline is skipped or run
\* again.  With the store enabled the update_db stage tries the update of the
\* driver's status exactly once when analyze left no error, and not at all
\* when the driver record could not be ensured in analyze; with the store
\* disabled no call goes to the store.  No call is made twice within one
\* stage; a call that failed in one stage may be made again in a later one.
C26_UpdateOnceUnlessCreationFailed ==
    /\ a_pc # "idle" =>
          FollowsOrder(a_pc, a_trace, <<"analyze", "update_db", "respond", "log_interaction">>)
    /\ a_db /\ "update_db" \in Range(a_trace) =>
          Len(CallsOf("update_db")) = IF CreationFailed THEN 0 ELSE 1
    /\ ~a_db => \A i \in DOMAIN a_calls : a_calls[i].call = "generate_content"
    /\ \A i, j \in DOMAIN a_calls :
          i < j /\ a_calls[i].node = a_calls[j].node => a_calls[j].call # a_calls[i].call

\* A run in which the driver record could not be ensured: update_db ran and
\* tried no update, and log_interaction checked the record once more.
C26_Witness ==
    /\ a_pc = "returned"
    /\ CreationFailed
    /\ "update_db" \in Range(a_trace)
    /\ CallsOf("update_db") = << >>
    /\ CallsOf("log_interaction")
          = <<[node |-> "log_interaction", call |-> "drivers.select", ok |-> FALSE]>>

\* C29: at the end of a run of the availability pipeline exactly one of the
\* two holds: last_updated is set (the update of the store went through) or
\* error is set (the driver record could not be ensured, or the update
\* failed); process_driver_message returns analysis_status failure exactly
\* when error is set, and success otherwise.
C29_UpdatedOrError ==
    /\ "update_db" \in Range(a_trace) =>
          /\ (a_state.last_updated # "") # (a_state.error # None)
          /\ a_state.last_updated # "" <=> ~StoreFailed
          /\ a_state.error # None <=> StoreFailed
    /\ AvailabilityReturned =>
          /\ a_result.analysis_status = "failure" <=> a_state.error # None
          /\ a_result.analysis_status = "success" <=> a_state.last_updated # ""
          /\ a_result.error_details = a_state.error

\* A run whose update of the store failed: no last_updated, the error, and
\* analysis_status failure.
C29_Witness ==
    /\ AvailabilityReturned
    /\ a_state.error = "Database update failed"
    /\ a_state.last_updated = ""
    /\ a_result.analysis_status = "failure"

\* C30: when the availability pipeline was brought in and has returned, the
\* router's envelope has type availability and status success, whether the
\* pipeline reports success or failure; an envelope has status failed
\* exactly when its type is error; every envelope of another type has its
\* type equal to routed_to.
C30_StatusFailedOnlyOfError ==
    RouterDone =>
        /\ r_raised = FALSE
        /\ r_intent = "availability" /\ r_fault.import = "ok" =>
              /\ r_envelope.type = "availability"
              /\ r_envelope.status = "success"
        /\ r_envelope.status \in {"success", "failed"}
        /\ r_envelope.status = "failed" <=> r_envelope.type = "error"
        /\ r_envelope.type # "error" => r_envelope.type = r_envelope.routed_to

\* The pipeline ran into a failure of the store and sent the degraded
\* acknowledgement; the envelope says success.
C30_Witness ==
    /\ RouterDone
    /\ r_fault.import = "ok"
    /\ r_envelope.type = "availability"
    /\ r_envelope.status = "success"
    /\ r_envelope.response = DegradedReply
    /\ r_envelope.driver_status = "error"

\* What a run alone makes of a query with these random draws.
AloneResult(query, random) ==
    generate_load_response(
        rank_and_filter_loads(
            search_available_loads(
                parse_load_query(LoadInitialState(query)),
                [loads |-> MOCK_LOADS, random |-> random, now |-> "2025-09-14 19:15:00"])))

\* C22: with any number of load searches under way and their stages
\* interleaved in any order, the list MOCK_LOADS stays as it is (no load
\* gains a match_score or a profitability_score, none is moved or dropped),
\* and the final state of each run is what its own query and its own random
\* draws give.
C22_SharedLoadsUntouched ==
    /\ s_loads = MOCK_LOADS
    /\ \A k \in DOMAIN s_loads :
          {"match_score", "profitability_score"} \cap DOMAIN s_loads[k] = {}
    /\ \A r \in DOMAIN s_pc :
          s_pc[r] = "END" => s_state[r] = AloneResult(s_state[r].query, s_draw[r])

\* Two searches have ended with different loads found, each with scored
\* copies of the loads in its own state, and MOCK_LOADS is as it was.
C22_Witness ==
    /\ DOMAIN s_pc = 1..MaxRuns
    /\ \A r \in DOMAIN s_pc : s_pc[r] = "END"
    /\ s_state[1].query = "from Delhi to Mumbai" /\ s_state[2].query = "truck"
    /\ Len(s_state[1].matched_loads) = 2
    /\ Len(s_state[2].matched_loads) = 4
    /\ s_state[1].matched_loads[1].match_score = 6
    /\ s_state[2].matched_loads[1].match_score = 2
    /\ s_loads = MOCK_LOADS

\* C27: with availability runs for one driver_id under way at the same
\* time, in any interleaving, at most one insert of a driver record of that
\* id is made, the check and the insert being one step: an insert is sent
\* only while no row of the id is in the table, and no second row of the id
\* goes in.
C27_CheckAndInsertAreOneStep ==
    /\ \A i \in DOMAIN d_issued : ~d_issued[i].present
    /\ \A id \in Drivers :
          Cardinality({i \in DOMAIN d_issued :
                          d_issued[i].driver_id = id /\ d_issued[i].ok}) <= 1

(***************************************************************************)
(* The router against the pipelines.                                       *)
(***************************************************************************)
\* C5: for a message classified as availability, load_search or
\* expense_tracking the envelope is built from a run of the matching
\* pipeline: an expense envelope carries the amount, expense_type, location
\* and validation_status process_expense_message finds, a load_search
\* envelope the number of loads process_load_search matched, an availability
\* envelope the status, location and reply of process_driver_message.
C5_EnvelopeFromPipeline ==
    (RouterDone /\ r_fault.import = "ok") =>
        /\ r_intent = "expense_tracking" =>
              \E x \in ExpenseOutcomes :
                 LET result == process_expense_message(r_message, r_driver, x)
                 IN /\ {"amount", "expense_type", "location", "validation_status"}
                          \subseteq DOMAIN r_envelope
                    /\ Rupees(r_envelope.amount) = result.amount
                    /\ r_envelope.expense_type = result.expense_type
                    /\ r_envelope.location = result.location
                    /\ r_envelope.validation_status = result.validation_status
        /\ r_intent = "load_search" =>
              \E x \in LoadOutcomes :
                 r_envelope.loads_found
                    = process_load_search(r_message, r_driver, x).loads_found
        /\ r_intent = "availability" =>
              \E x \in AvailabilityOutcomes :
                 LET result == process_driver_message(r_message, r_driver, x)
                 IN /\ r_envelope.driver_status = result.driver_status
                    /\ r_envelope.location = result.location
                    /\ r_envelope.response = result.response_sent

====
